---- MODULE Spec2Model ----
(***************************************************************************)
(* Webhook ingestion and secret management of asanaSheetsRomano:           *)
(*   - the write queue sheetsRateLimiter of the Express server,            *)
(*   - the secrets table webhook_secrets and its upsert variants,          *)
(*   - the three webhook handlers (Express, serverless CJS, api/webhook).  *)
(***************************************************************************)
EXTENDS Integers, Sequences, FiniteSets, TLC

\* ------------------------------------------------------------------------
\* Bounds of the model
\* ------------------------------------------------------------------------
MaxOps == 3          \* operations ever passed to sheetsRateLimiter.enqueue
Max429 == 1          \* 429 answers one queued operation may receive
MaxExports == 1      \* export requests handled by the Express process
MaxProcs == 2        \* webhook requests and tool runs
MaxFailures == 2     \* failed calls (backing store, credentials) in one run
MaxPolls == 2        \* polls of recreateWebhook followed before it gives up

Ops == 1..MaxOps
Exports == 1..MaxExports

\* ------------------------------------------------------------------------
\* State of the Express process: sheetsRateLimiter and the export handler
\* ------------------------------------------------------------------------
VARIABLES
  queue,          \* sheetsRateLimiter.queue: the operations waiting, head first
  processing,     \* sheetsRateLimiter.processing
  exec,           \* per operation: "none", or the call of operation() in flight:
                  \*   "read" (a read call pending) / "write" (a write call pending)
  promise,        \* per operation: the promise enqueue returned
  minDelayTimers, \* pending setTimeout(..., minDelayMs) of the finally block
  backoffTimers,  \* pending setTimeout(..., 5000 + random) of the 429 branch:
                  \*   records [op, armed]; armed once the 1 s timer set at the
                  \*   same completion has fired (1 s < 5 s)
  fails429,       \* per operation: 429 answers received so far
  enqueued,       \* number of operations enqueued so far (they arrive as 1, 2, ...)
  exportPc        \* per export request: the spreadsheet call in flight

qvars == <<queue, processing, exec, promise, minDelayTimers, backoffTimers,
           fails429, enqueued, exportPc>>

\* ------------------------------------------------------------------------
\* State of the webhook handlers and of the secrets table
\* ------------------------------------------------------------------------
VARIABLES
  secretSheet,    \* the rows of the sheet webhook_secrets, row 1 first
  sheetExists,    \* the spreadsheet has a sheet titled webhook_secrets
  req,            \* per request (or tool run): its inputs, the call in flight,
                  \*   its locals and the response sent so far
  started,        \* number of requests begun so far (they arrive as 1, 2, ...)
  failures        \* number of backing-store or client calls that failed so far

wvars == <<secretSheet, sheetExists, req, started, failures>>

\* ------------------------------------------------------------------------
\* State of the event reconciliation (Sheet1) and of the import tool
\* ------------------------------------------------------------------------
VARIABLES
  taskSheet,      \* the rows of Sheet1, row 1 (the header) first
  ev,             \* per event handed to handleWebhookEvent: its inputs, the
                  \*   call in flight, its locals and what it wrote so far
  rc              \* recreateWebhook of importWorkspaceWebhooks.cjs: its
                  \*   position, its locals and what it wrote so far

tvars == <<taskSheet, ev, rc>>

\* ------------------------------------------------------------------------
\* State of the helpers of the export and of the command-line tools
\* ------------------------------------------------------------------------
VARIABLES
  rt,             \* one run of a retry helper: its arguments, the loop counter
                  \*   and the outcome of every call of the wrapped function
  pg,             \* one run of getAllPages: its locals and the outcome of
                  \*   every page fetch
  cf,             \* one call of processTaskData: its arguments and its result
  wr              \* one changed/added event of handleWebhookEvent: the task it
                  \*   fetched, the row it built and what the write call did

hvars == <<rt, pg, cf, wr>>

\* ------------------------------------------------------------------------
\* State of the event loop of one verified delivery
\* ------------------------------------------------------------------------
VARIABLES
  dl              \* the handler, the response sent, the event the loop is at
                  \*   and the operations it handed to sheetsRateLimiter

\* ------------------------------------------------------------------------
\* State of the module config/asana.js: the spreadsheet its calls address
\* ------------------------------------------------------------------------
VARIABLES
  spreadsheetCache, \* spreadsheetCache.id: "unset" stands for null
  hw                \* per call of handleWebhookEvent: its arguments, the call in
                    \*   flight and the spreadsheets its calls were sent to

svars == <<spreadsheetCache, hw>>

vars == <<queue, processing, exec, promise, minDelayTimers, backoffTimers,
          fails429, enqueued, exportPc,
          secretSheet, sheetExists, req, started, failures,
          taskSheet, ev, rc,
          rt, pg, cf, wr, dl, spreadsheetCache, hw>>

\* ------------------------------------------------------------------------
\* Data of the webhook handlers
\* ------------------------------------------------------------------------
Procs == 1..MaxProcs

WebhookIds == {"wh1", "wh2"}
Secrets == {"s1", "s2"}               \* secrets a handshake may deliver
SigningKeys == {"s1", "s2", "s3"}     \* keys a sender may sign a delivery with
Codes == {"429", "other"}             \* error.code of a failed call

\* Handlers: the Express route of the server ("express"), the serverless
\* CommonJS function ("vercel"), api/webhook.js ("api"), and the command-line
\* tools storeSecret.cjs / appendOrUpdate ("tool").
WebHandlers == {"express", "vercel", "api"}
Handlers == WebHandlers \cup {"tool"}

\* Two raw request bodies with the same JSON value.
Compact == "{\"events\":[1,2]}"
Spaced == "{ \"events\": [1, 2] }"
RawBodies == {Compact, Spaced}

\* JSON.parse (express.json() / parseRequestBody) and JSON.stringify.
Parse(raw) == IF raw \in RawBodies THEN [events |-> <<1, 2>>] ELSE [events |-> <<>>]

Stringify(obj) == IF obj.events = <<1, 2>> THEN Compact ELSE "{}"

\* crypto.createHmac("SHA256", secret).update(text).digest("hex"), taken to be
\* collision free: two digests are equal only for the same key and text.
Hmac(secret, text) == <<secret, text>>

\* Row 1 of webhook_secrets as ensureWebhookSecretsSheet writes it.
Hdr == [id |-> "webhook_id", secret |-> "secret"]

\* A row recreateWebhook has blanked: values [['', '']].
BlankRow == [id |-> "", secret |-> ""]

\* The places a handshake request may carry a webhook id in: the headers
\* x-hook-id / x-hook-gid, the query parameters webhookId / clientWebhookId,
\* and body.data.id.  "none" stands for an absent one.
NoIds == [hdr |-> "none", query |-> "none", body |-> "none"]

SameIds(wid) == [hdr |-> wid, query |-> wid, body |-> wid]

\* The webhookId local of the handler.  "undefined" stands for the JavaScript
\* value undefined; `now` is the reading of Date.now().
ResolveWebhookId(handler, ids, now) ==
  CASE handler = "api" ->
         IF ids.hdr # "none" THEN ids.hdr
         ELSE IF ids.query # "none" THEN ids.query
         ELSE "asana-" \o ToString(now)
    [] handler \in {"express", "vercel"} ->
         IF ids.body # "none" THEN ids.body ELSE "undefined"
    [] OTHER ->
         IF ids.query # "none" THEN ids.query ELSE "manual-" \o ToString(now)

\* No error thrown by the upsert so far.
NoThrow == [at |-> "none", code |-> "none", retried |-> FALSE]

NoReq ==
  [handler |-> "none", hookSecret |-> "none", sig |-> "none", raw |-> Compact,
   sheetId |-> FALSE, ids |-> NoIds, now |-> 0, secrets |-> {},
   wid |-> "none", pc |-> "new", call |-> "none",
   target |-> 0, retried |-> FALSE, persist |-> "none", status |-> 0,
   echo |-> "none", body |-> "none", verified |-> FALSE, evStarted |-> 0,
   thrown |-> NoThrow]

WebhookIdle ==
  /\ secretSheet = <<>>
  /\ sheetExists = FALSE
  /\ req = [p \in Procs |-> NoReq]
  /\ started = 0
  /\ failures = 0

\* ------------------------------------------------------------------------
\* Data of the event reconciliation
\* ------------------------------------------------------------------------
Tasks == {"t1", "t2"}
EventActions == {"changed", "added", "removed", "deleted"}
Assignees == {"", "Manager", "Withdrawals", "Withdraws", "Worker1"}
EventHandlers == {"express", "vercel"}

\* Row 1 of Sheet1: the header row the export writes.
TaskHdr == [task |-> "Task ID", completed |-> "Completed", assignee |-> "Assignee"]

\* rowValues of handleWebhookEvent, cut down to the columns that decide:
\* Task ID (index 17), Completed (index 18) and Assignee (index 2).
RowValues(task, completed, assignee) ==
  [task |-> task, completed |-> IF completed THEN "Yes" ELSE "No",
   assignee |-> assignee]

NoEv ==
  [handler |-> "none", action |-> "none", task |-> "none", pc |-> "new",
   completed |-> FALSE, assignee |-> "", rowIndex |-> 0, hadRow |-> FALSE,
   issued |-> 0, nUpdate |-> 0, nAppend |-> 0, nDelete |-> 0,
   touched |-> "none", moved |-> {}, threw |-> FALSE]

TaskIdle ==
  /\ taskSheet = <<TaskHdr>>
  /\ ev = [p \in Procs |-> NoEv]

NoRc ==
  [pc |-> "idle", stage |-> "none", captured |-> "none", target |-> 0,
   polls |-> 0, before |-> <<>>, after |-> <<>>, blanked |-> 0]

RcIdle == rc = NoRc

\* The retry helpers: fetchWithRetry of the controller and the retryOperation
\* of manageWorkspaceWebhooks.js and of importWorkspaceWebhooks.cjs.
RetryHelpers == {"fetchWithRetry", "retryOperation.manage", "retryOperation.import"}

\* maxRetries as the callers pass it: the defaults, and 4 for createWebhook.
RetryLimits(helper) ==
  CASE helper = "fetchWithRetry" -> {5}
    [] helper = "retryOperation.manage" -> {3, 4}
    [] OTHER -> {3}

\* `error.status || error.response.status || null` of an error that carries no
\* HTTP status: a network error or a timeout.
NoStatus == 0

\* The status of the error a call of the wrapped function may fail with.
ErrorStatuses == {429, 503, 404, NoStatus}

\* `outcomes` holds 200 for a call that returned and the error status else.
NoRt ==
  [pc |-> "idle", helper |-> "none", maxRetries |-> 0, attempt |-> 0,
   calls |-> 0, outcomes |-> <<>>, result |-> "none", thrown |-> NoStatus]

NoPg ==
  [pc |-> "idle", offset |-> 0, results |-> <<>>, consecutiveErrors |-> 0,
   calls |-> 0, history |-> <<>>]

\* JavaScript values: null, undefined, a string, a number (its digits) and
\* the enum option object {name}.
Null == [t |-> "null", v |-> ""]
Undefined == [t |-> "undefined", v |-> ""]
Str(s) == [t |-> "string", v |-> s]
Num(n) == [t |-> "number", v |-> n]
Obj(name) == [t |-> "object", v |-> name]

NoCf ==
  [pc |-> "idle", module |-> "none", fields |-> <<>>, workspaceId |-> Undefined,
   result |-> <<>>]

NoWr ==
  [pc |-> "idle", workspace |-> Undefined, workspaceId |-> Undefined,
   fields |-> <<>>, path |-> "none", values |-> <<>>, written |-> <<>>,
   threw |-> FALSE]

\* No helper has been called.
HelperIdle == rt = NoRt /\ pg = NoPg /\ cf = NoCf /\ wr = NoWr

NoDl ==
  [pc |-> "idle", handler |-> "none", status |-> 0, next |-> 0, ops |-> <<>>,
   failed |-> {}]

DeliveryIdle == dl = NoDl

SheetIds == {"sheetA", "sheetB"}

NoHw ==
  [pc |-> "idle", handler |-> "none", action |-> "none", sheetId |-> "none",
   addressed |-> {}]

TargetIdle == spreadsheetCache = "unset" /\ hw = [p \in Procs |-> NoHw]

Running == {op \in Ops : exec[op] # "none"}

Settled(op) == promise[op] \in {"resolved", "rejected"}

QueueIdle ==
  /\ queue = <<>>
  /\ processing = FALSE
  /\ exec = [op \in Ops |-> "none"]
  /\ promise = [op \in Ops |-> "unborn"]
  /\ minDelayTimers = 0
  /\ backoffTimers = {}
  /\ fails429 = [op \in Ops |-> 0]
  /\ enqueued = 0
  /\ exportPc = [e \in Exports |-> "idle"]

QueueInit == QueueIdle /\ WebhookIdle /\ TaskIdle /\ RcIdle /\ HelperIdle /\ DeliveryIdle /\ TargetIdle

\* processQueue, line 255: `if (this.processing || this.queue.length === 0) return;`
CanProcessNoFlag(p, q) == Len(q) > 0

CanProcess(p, q) == ~p /\ Len(q) > 0

ProcessQueueNoLock(p, q, ex) ==
  IF CanProcess(p, q)
    THEN [processing |-> p, queue |-> Tail(q),
          exec |-> [ex EXCEPT ![Head(q)] = "read"]]
    ELSE [processing |-> p, queue |-> q, exec |-> ex]

\* processQueue up to its first await: sets the flag, shifts the head and calls
\* operation().  Yields the new processing, queue and exec.
ProcessQueue(p, q, ex) ==
  IF CanProcess(p, q)
    THEN [processing |-> TRUE, queue |-> Tail(q),
          exec |-> [ex EXCEPT ![Head(q)] = "read"]]
    ELSE [processing |-> p, queue |-> q, exec |-> ex]

\* enqueue(operation): push, then processQueue().
Push(op) ==
  LET r == ProcessQueue(processing, Append(queue, op), exec)
  IN /\ enqueued' = op
     /\ promise' = [promise EXCEPT ![op] = "pending"]
     /\ processing' = r.processing
     /\ queue' = r.queue
     /\ exec' = r.exec

Enqueue ==
  /\ enqueued < MaxOps
  /\ Push(enqueued + 1)
  /\ UNCHANGED <<svars, dl, hvars, tvars, wvars, minDelayTimers, backoffTimers, fails429, exportPc>>

\* Inside operation(): the read calls are done, a write call is issued.
OpWrite(op) ==
  /\ exec[op] = "read"
  /\ exec' = [exec EXCEPT ![op] = "write"]
  /\ UNCHANGED <<svars, dl, hvars, tvars, wvars, queue, processing, promise, minDelayTimers, backoffTimers,
                 fails429, enqueued, exportPc>>

\* `const result = await operation(); resolve(result);` then the finally block.
OpSucceed(op) ==
  /\ exec[op] # "none"
  /\ exec' = [exec EXCEPT ![op] = "none"]
  /\ promise' = [promise EXCEPT ![op] = "resolved"]
  /\ minDelayTimers' = minDelayTimers + 1
  /\ UNCHANGED <<svars, dl, hvars, tvars, wvars, queue, processing, backoffTimers, fails429, enqueued, exportPc>>

\* catch, error.code # 429: reject(error); then the finally block.
OpFail(op) ==
  /\ exec[op] # "none"
  /\ exec' = [exec EXCEPT ![op] = "none"]
  /\ promise' = [promise EXCEPT ![op] = "rejected"]
  /\ minDelayTimers' = minDelayTimers + 1
  /\ UNCHANGED <<svars, dl, hvars, tvars, wvars, queue, processing, backoffTimers, fails429, enqueued, exportPc>>

\* catch, error.code === 429: a backoff timer that will unshift the operation;
\* the promise stays pending; then the finally block.
OpRateLimited(op) ==
  /\ exec[op] # "none"
  /\ fails429[op] < Max429
  /\ exec' = [exec EXCEPT ![op] = "none"]
  /\ fails429' = [fails429 EXCEPT ![op] = @ + 1]
  /\ backoffTimers' = backoffTimers \cup {[op |-> op, armed |-> FALSE]}
  /\ minDelayTimers' = minDelayTimers + 1
  /\ UNCHANGED <<svars, dl, hvars, tvars, wvars, queue, processing, promise, enqueued, exportPc>>

\* The timer of the finally block: `this.processing = false; this.processQueue();`
MinDelayFire ==
  /\ minDelayTimers > 0
  /\ minDelayTimers' = minDelayTimers - 1
  /\ LET r == ProcessQueue(FALSE, queue, exec)
     IN /\ processing' = r.processing
        /\ queue' = r.queue
        /\ exec' = r.exec
  /\ backoffTimers' = {[b EXCEPT !.armed = TRUE] : b \in backoffTimers}
  /\ UNCHANGED <<svars, dl, hvars, tvars, wvars, promise, fails429, enqueued, exportPc>>

\* The timer of the 429 branch: `this.queue.unshift({operation, resolve, reject})`
\* and nothing else.
BackoffFire(b) ==
  /\ b \in backoffTimers
  /\ b.armed
  /\ backoffTimers' = backoffTimers \ {b}
  /\ queue' = <<b.op>> \o queue
  /\ UNCHANGED <<svars, dl, hvars, tvars, wvars, processing, exec, promise, minDelayTimers, fails429, enqueued,
                 exportPc>>

\* exportWorkspaceToSheet: values.clear, values.update, batchUpdate and
\* ensureWebhookSecretsSheet, each awaited, none of them enqueued.
ExportNextPc(pc) ==
  CASE pc = "idle" -> "clear"
    [] pc = "clear" -> "update"
    [] pc = "update" -> "resize"
    [] pc = "resize" -> "ensure"
    [] pc = "ensure" -> "done"
    [] OTHER -> pc

ExportStep(e) ==
  /\ exportPc[e] \in {"idle", "clear", "update", "resize", "ensure"}
  /\ exportPc' = [exportPc EXCEPT ![e] = ExportNextPc(@)]
  /\ UNCHANGED <<svars, dl, hvars, tvars, wvars, queue, processing, exec, promise, minDelayTimers, backoffTimers,
                 fails429, enqueued>>

\* Any of the calls throws: the catch answers 500.
ExportFail(e) ==
  /\ exportPc[e] \in {"clear", "update", "resize", "ensure"}
  /\ exportPc' = [exportPc EXCEPT ![e] = "failed"]
  /\ UNCHANGED <<svars, dl, hvars, tvars, wvars, queue, processing, exec, promise, minDelayTimers, backoffTimers,
                 fails429, enqueued>>

OpFinish == \E op \in Ops : OpWrite(op) \/ OpSucceed(op) \/ OpFail(op) \/ OpRateLimited(op)

QueueNext ==
  \/ Enqueue
  \/ \E op \in Ops : OpWrite(op)
  \/ \E op \in Ops : OpSucceed(op)
  \/ \E op \in Ops : OpFail(op)
  \/ \E op \in Ops : OpRateLimited(op)
  \/ MinDelayFire
  \/ \E b \in backoffTimers : BackoffFire(b)
  \/ \E e \in Exports : ExportStep(e)
  \/ \E e \in Exports : ExportFail(e)

QueueSpec == QueueInit /\ [][QueueNext]_vars

\* Timers fire and every call in flight returns; nothing obliges a client to
\* enqueue again.
QueueLiveSpec ==
  /\ QueueInit
  /\ [][QueueNext]_vars
  /\ WF_vars(MinDelayFire)
  /\ WF_vars(\E b \in backoffTimers : BackoffFire(b))
  /\ WF_vars(OpFinish)

\* ------------------------------------------------------------------------
\* The secrets table
\* ------------------------------------------------------------------------
\* The data rows an upsert or getWebhookSecrets looks at: rows.slice(1) of
\* values.get("webhook_secrets!A:B"), or values.get("webhook_secrets!A2:B").
DataRows(sheet) == SubSeq(sheet, 2, Len(sheet))

\* rows.findIndex(r => r[0] === webhookId), counted from 1; 0 stands for -1.
\* `r[0] === webhookId`: values.get returns an empty row as [], whose r[0]
\* is undefined, and an empty first cell before a filled one as "".
RowIdIs(row, wid) ==
  IF wid = "undefined" THEN row.id = "" /\ row.secret = "" ELSE row.id = wid

FindIndex(rows, wid) ==
  IF \E i \in 1..Len(rows) : RowIdIs(rows[i], wid)
    THEN CHOOSE i \in 1..Len(rows) :
           RowIdIs(rows[i], wid) /\ \A j \in 1..(i - 1) : ~RowIdIs(rows[j], wid)
    ELSE 0

RowNumNoHeader(i) == i

\* The row of the range address, `existingIndex + 2` for the 0-based index.
RowNum(i) == i + 1

\* Where the upsert will write: the row to update, or 0 for an append.
UpsertTarget(rows, wid) ==
  IF FindIndex(rows, wid) = 0 THEN 0 ELSE RowNum(FindIndex(rows, wid))

\* values.update of one row, or values.append after the last row.
\* The last row that holds a value; values.append with INSERT_ROWS inserts
\* its row right after it.
LastDataRow(sheet) ==
  IF \E i \in 1..Len(sheet) : sheet[i] # BlankRow
    THEN CHOOSE i \in 1..Len(sheet) :
           sheet[i] # BlankRow /\ \A j \in (i + 1)..Len(sheet) : sheet[j] = BlankRow
    ELSE 0

\* An undefined value is sent as null, which leaves the cell as it is.
ApplyWrite(sheet, target, wid, secret) ==
  IF target \in DOMAIN sheet
    THEN [sheet EXCEPT ![target] =
            [id |-> IF wid = "undefined" THEN sheet[target].id ELSE wid,
             secret |-> secret]]
    ELSE LET n == LastDataRow(sheet)
         IN SubSeq(sheet, 1, n)
              \o <<[id |-> IF wid = "undefined" THEN "" ELSE wid,
                    secret |-> secret]>>
              \o SubSeq(sheet, n + 1, Len(sheet))

\* values.update("webhook_secrets!A1:B1", [["webhook_id", "secret"]]).
WriteHeader(sheet) ==
  IF Len(sheet) = 0 THEN <<Hdr>> ELSE [sheet EXCEPT ![1] = Hdr]

\* The Map getWebhookSecrets builds: the non-empty secret cells.
SecretsOfKeepEmpty(rows) == {rows[i].secret : i \in 1..Len(rows)}

SecretsOf(rows) == {rows[i].secret : i \in 1..Len(rows)} \ {""}

\* The loop over the stored secrets: some secret's digest equals the header.
VerifySignature(secrets, text, signature) ==
  \E s \in secrets : Hmac(s, text) = signature

\* ------------------------------------------------------------------------
\* The handlers, as steps between two awaits
\* ------------------------------------------------------------------------
Respond(r, st, bd) == [r EXCEPT !.status = st, !.body = bd]

Finish(r) ==
  [r EXCEPT !.pc = "done", !.call = "none", !.target = 0, !.retried = FALSE]

\* storeWebhookSecret (src/config) serves the Express route and the
\* serverless function; api/webhook.js and the tools carry their own upsert.
UsesStoreWebhookSecret(h) == h \in {"express", "vercel"}

\* `await <upsert>(...)`: the handler goes on only when the upsert has settled.
FireAndForgetStore(r, pc) ==
  [r EXCEPT !.pc = pc, !.call = "store", !.persist = "pending",
            !.status = 200, !.echo = r.hookSecret]

AwaitStore(r, pc) ==
  [r EXCEPT !.pc = pc, !.call = "store", !.persist = "pending"]

\* The handler from its entry to its first await.
BeginReq(handler, secret, key, raw, sheetId, ids, now) ==
  LET base == [NoReq EXCEPT !.handler = handler, !.hookSecret = secret,
                            !.sig = key, !.raw = raw, !.sheetId = sheetId,
                            !.ids = ids, !.now = now,
                            !.wid = IF secret = "none" THEN "none"
                                    ELSE ResolveWebhookId(handler, ids, now)]
  IN CASE handler = "express" ->
            IF ~sheetId THEN Finish(Respond(base, 400, "Bad Request"))
                        ELSE [base EXCEPT !.pc = "client"]
       [] handler = "vercel" ->
            IF ~sheetId
              THEN Finish(Respond(base, 400, "Missing sheetId query parameter"))
              ELSE [base EXCEPT !.pc = "client"]
       [] handler = "api" ->
            IF secret # "none"
              THEN LET e == [base EXCEPT !.echo = secret]
                   IN IF ~sheetId
                        THEN Finish(Respond(e, 200, "Handshake OK (no sheetId)"))
                        ELSE AwaitStore(e, "client")
              ELSE Finish(Respond(base, 200, "Event received"))
       [] OTHER -> [base EXCEPT !.pc = "client"]

\* getGoogleSheetsClient / getSheetsClient / loadCredentials + authorize returned.
AfterClient(r) ==
  CASE r.handler = "express" ->
         IF r.hookSecret # "none" THEN AwaitStore(r, "queued")
         ELSE IF r.sig # "none" THEN [r EXCEPT !.pc = "queued", !.call = "get"]
         ELSE Finish(Respond(r, 400, "Bad Request"))
    [] r.handler = "vercel" ->
         IF r.hookSecret # "none" THEN AwaitStore(r, "meta")
         ELSE IF r.sig = "none"
           THEN Finish(Respond(r, 400, "Missing required webhook headers"))
         ELSE [r EXCEPT !.pc = "meta", !.call = "get"]
    [] r.handler = "api" -> [r EXCEPT !.pc = "meta"]
    [] OTHER -> AwaitStore(r, "meta")

\* ... or threw.
ClientFailed(r) ==
  CASE r.handler = "express" -> Finish(Respond(r, 500, "Internal Server Error"))
    [] r.handler = "vercel" -> Finish(Respond(r, 500, "Internal server error"))
    [] r.handler = "api" ->
         Finish(Respond([r EXCEPT !.persist = "threw"], 200,
                        "Handshake OK (persist attempt completed)"))
    [] OTHER -> Finish(r)

\* The upsert returned normally: the handshake branch answers.
StoreReturned(r) ==
  LET d == [r EXCEPT !.persist = "returned"]
  IN CASE r.handler = "express" ->
            Finish(Respond([d EXCEPT !.echo = r.hookSecret], 200, "OK"))
       [] r.handler = "vercel" ->
            Finish(Respond([d EXCEPT !.echo = r.hookSecret], 200,
                           "Webhook handshake completed"))
       [] r.handler = "api" ->
            Finish(Respond(d, 200, "Handshake OK (persist attempt completed)"))
       [] OTHER -> Finish(d)

\* The upsert threw an error with the given code.  In the Express route the
\* upsert runs inside sheetsRateLimiter, which keeps a 429 to itself and
\* re-queues the operation.
StoreThrew(r0, code) ==
  LET r == [r0 EXCEPT !.thrown = [at |-> r0.pc, code |-> code,
                                   retried |-> r0.retried]]
      d == [r EXCEPT !.persist = "threw"]
  IN CASE r.handler = "express" ->
            IF code = "429"
              THEN [r EXCEPT !.pc = "queued", !.target = 0, !.retried = FALSE]
              ELSE Finish(Respond(d, 500, "Failed to store webhook secret"))
       [] r.handler = "vercel" ->
            Finish(Respond(d, 500, "Failed to store webhook secret"))
       [] r.handler = "api" ->
            Finish(Respond(d, 200, "Handshake OK (persist attempt completed)"))
       [] OTHER -> Finish(d)

\* The signature branch once getWebhookSecrets has returned `secrets`: the
\* digest is taken over JSON.stringify of the parsed body.
Verified(r0, secrets) ==
  LET r == [r0 EXCEPT !.secrets = secrets]
  IN
  IF ~VerifySignature(secrets, Stringify(Parse(r.raw)), Hmac(r.sig, r.raw))
    THEN Finish(Respond(r, 401, "Invalid webhook signature"))
    ELSE LET a == Respond([r EXCEPT !.verified = TRUE], 200, "OK")
         IN IF Len(Parse(r.raw).events) = 0 THEN Finish(a)
            ELSE [a EXCEPT !.pc = IF r.handler = "express" THEN "queued" ELSE "event",
                           !.call = "event", !.target = 0, !.retried = FALSE,
                           !.evStarted = 1]

\* The upsert throws to its caller; getWebhookSecrets catches and returns an
\* empty Map.
ThrewToCaller(r, code) ==
  IF r.call = "store" THEN StoreThrew(r, code)
  ELSE Finish(Respond([r EXCEPT !.thrown = [at |-> r.pc, code |-> code,
                                            retried |-> r.retried]],
                      500, "Failed to verify webhook signature"))

Threw(r, code) ==
  IF r.call = "store" THEN StoreThrew(r, code)
  ELSE Verified([r EXCEPT !.thrown = [at |-> r.pc, code |-> code,
                                      retried |-> r.retried]], {})

\* A backing-store call of the upsert or of getWebhookSecrets failed.
OnCallFail(r, code) ==
  IF UsesStoreWebhookSecret(r.handler)
    THEN IF r.pc \in {"meta", "add", "header"}
           THEN IF code = "429" /\ ~r.retried
                  THEN [r EXCEPT !.pc = "meta", !.retried = TRUE]
                  ELSE Threw(r, code)
         ELSE IF r.pc = "read"
           THEN IF code = "429" /\ ~r.retried
                  THEN [r EXCEPT !.retried = TRUE]
                  ELSE Threw(r, code)
         ELSE Threw(r, code)
    ELSE IF r.pc = "read"
           THEN [r EXCEPT !.pc = "write", !.target = UpsertTarget(<<>>, r.wid)]
           ELSE Threw(r, code)

\* The single worker of sheetsRateLimiter is free for the Express route.
LimiterFree ==
  \A q \in Procs :
    ~(req[q].handler = "express"
        /\ req[q].pc \in {"meta", "add", "header", "read", "write", "event"})

AllQuiet == \A q \in Procs : req[q].pc \in {"new", "done"}

\* The n-th request reads the clock as n.
Begin(handler, secret, key, raw, sheetId, ids) ==
  /\ started < MaxProcs
  /\ started' = started + 1
  /\ req' = [req EXCEPT ![started + 1] =
                 BeginReq(handler, secret, key, raw, sheetId, ids, started + 1)]
  /\ UNCHANGED <<svars, dl, hvars, tvars, qvars, secretSheet, sheetExists, failures>>

BeginHandshake ==
  \E handler \in Handlers, secret \in Secrets, wid \in WebhookIds,
     sheetId \in BOOLEAN :
    /\ handler = "tool" => sheetId
    /\ Begin(handler, secret, "none", Compact, sheetId, SameIds(wid))

SeqBeginHandshake == AllQuiet /\ BeginHandshake

BeginEvent ==
  \E handler \in WebHandlers, key \in SigningKeys \cup {"none"},
     raw \in RawBodies, sheetId \in BOOLEAN :
    Begin(handler, "none", key, raw, sheetId, NoIds)

ClientReady(p) ==
  /\ req[p].pc = "client"
  /\ req' = [req EXCEPT ![p] = AfterClient(@)]
  /\ UNCHANGED <<svars, dl, hvars, tvars, qvars, secretSheet, sheetExists, started, failures>>

ClientFail(p) ==
  /\ req[p].pc = "client"
  /\ failures < MaxFailures
  /\ failures' = failures + 1
  /\ req' = [req EXCEPT ![p] = ClientFailed(@)]
  /\ UNCHANGED <<svars, dl, hvars, tvars, qvars, secretSheet, sheetExists, started>>

\* sheetsRateLimiter starts the operation of an Express request.
QueueStart(p) ==
  /\ req[p].pc = "queued"
  /\ LimiterFree
  /\ req' = [req EXCEPT ![p].pc = IF req[p].call = "event" THEN "event" ELSE "meta"]
  /\ UNCHANGED <<svars, dl, hvars, tvars, qvars, secretSheet, sheetExists, started, failures>>

\* ensureWebhookSecretsSheet: spreadsheets.get returned.
MetaOk(p) ==
  /\ req[p].pc = "meta"
  /\ req' = [req EXCEPT ![p] =
               IF sheetExists THEN [req[p] EXCEPT !.pc = "read", !.retried = FALSE]
                              ELSE [req[p] EXCEPT !.pc = "add"]]
  /\ UNCHANGED <<svars, dl, hvars, tvars, qvars, secretSheet, sheetExists, started, failures>>

\* batchUpdate(addSheet) returned.
AddOk(p) ==
  /\ req[p].pc = "add"
  /\ ~sheetExists
  /\ sheetExists' = TRUE
  /\ req' = [req EXCEPT ![p].pc = "header"]
  /\ UNCHANGED <<svars, dl, hvars, tvars, qvars, secretSheet, started, failures>>

\* batchUpdate(addSheet) is refused: a sheet of that title exists by now.
AddConflict(p) ==
  /\ req[p].pc = "add"
  /\ sheetExists
  /\ req' = [req EXCEPT ![p] = OnCallFail(@, "other")]
  /\ UNCHANGED <<svars, dl, hvars, tvars, qvars, secretSheet, sheetExists, started, failures>>

\* The header write returned.
HeaderOk(p) ==
  /\ req[p].pc = "header"
  /\ secretSheet' = WriteHeader(secretSheet)
  /\ req' = [req EXCEPT ![p] = [req[p] EXCEPT !.pc = "read", !.retried = FALSE]]
  /\ UNCHANGED <<svars, dl, hvars, tvars, qvars, sheetExists, started, failures>>

\* values.get of the secrets returned.
ReadOk(p) ==
  /\ req[p].pc = "read"
  /\ LET r == req[p]
     IN req' = [req EXCEPT ![p] =
               IF r.call = "store"
                 THEN [r EXCEPT !.pc = "write", !.retried = FALSE,
                                !.target = UpsertTarget(DataRows(secretSheet), r.wid)]
                 ELSE Verified(r, SecretsOf(DataRows(secretSheet)))]
  /\ UNCHANGED <<svars, dl, hvars, tvars, qvars, secretSheet, sheetExists, started, failures>>

\* values.update / values.append of the secret returned.
WriteOk(p) ==
  /\ req[p].pc = "write"
  /\ secretSheet' = ApplyWrite(secretSheet, req[p].target, req[p].wid,
                               req[p].hookSecret)
  /\ req' = [req EXCEPT ![p] = StoreReturned(@)]
  /\ UNCHANGED <<svars, dl, hvars, tvars, qvars, sheetExists, started, failures>>

\* A backing-store call fails with a 429 or with another error.
CallFail(p, code) ==
  /\ req[p].pc \in {"meta", "add", "header", "read", "write"}
  /\ failures < MaxFailures
  /\ failures' = failures + 1
  /\ req' = [req EXCEPT ![p] = OnCallFail(@, code)]
  /\ UNCHANGED <<svars, dl, hvars, tvars, qvars, secretSheet, sheetExists, started>>

\* handleWebhookEvent settled (returned or threw): the loop goes on with the
\* next event of the delivery.
EventDone(p) ==
  /\ req[p].pc = "event"
  /\ LET r == req[p]
     IN req' = [req EXCEPT ![p] =
               IF r.evStarted < Len(Parse(r.raw).events)
                 THEN [r EXCEPT !.evStarted = r.evStarted + 1,
                                !.pc = IF r.handler = "express" THEN "queued"
                                                                ELSE "event"]
                 ELSE Finish(r)]
  /\ UNCHANGED <<svars, dl, hvars, tvars, qvars, secretSheet, sheetExists, started, failures>>

\* In the Express route a 429 of handleWebhookEvent re-queues the event.
EventRateLimited(p) ==
  /\ req[p].pc = "event"
  /\ req[p].handler = "express"
  /\ failures < MaxFailures
  /\ failures' = failures + 1
  /\ req' = [req EXCEPT ![p].pc = "queued"]
  /\ UNCHANGED <<svars, dl, hvars, tvars, qvars, secretSheet, sheetExists, started>>

\* Handshakes and tool runs against one spreadsheet, in any interleaving.
Init == QueueIdle /\ WebhookIdle /\ TaskIdle /\ RcIdle /\ HelperIdle /\ DeliveryIdle /\ TargetIdle

Next ==
  \/ BeginHandshake
  \/ \E p \in Procs : ClientReady(p)
  \/ \E p \in Procs : ClientFail(p)
  \/ \E p \in Procs : QueueStart(p)
  \/ \E p \in Procs : MetaOk(p)
  \/ \E p \in Procs : AddOk(p)
  \/ \E p \in Procs : AddConflict(p)
  \/ \E p \in Procs : HeaderOk(p)
  \/ \E p \in Procs : ReadOk(p)
  \/ \E p \in Procs : WriteOk(p)
  \/ \E p \in Procs, code \in Codes : CallFail(p, code)

Spec == Init /\ [][Next]_vars

\* The same, one request or tool run after the other.
SeqNext ==
  \/ SeqBeginHandshake
  \/ \E p \in Procs : ClientReady(p)
  \/ \E p \in Procs : ClientFail(p)
  \/ \E p \in Procs : QueueStart(p)
  \/ \E p \in Procs : MetaOk(p)
  \/ \E p \in Procs : AddOk(p)
  \/ \E p \in Procs : HeaderOk(p)
  \/ \E p \in Procs : ReadOk(p)
  \/ \E p \in Procs : WriteOk(p)
  \/ \E p \in Procs, code \in Codes : CallFail(p, code)

SeqSpec == Init /\ [][SeqNext]_vars

\* Handshakes handled one after the other, the webhook id carried in any of
\* the places a handler may look at.
IdChoices ==
  [hdr : {"none", "wh2"}, query : {"none", "wh1"}, body : {"none", "wh1"}]

BeginAnyHandshake ==
  /\ AllQuiet
  /\ \E handler \in WebHandlers, secret \in Secrets, ids \in IdChoices,
        sheetId \in BOOLEAN :
       Begin(handler, secret, "none", Compact, sheetId, ids)

HandshakeNext ==
  \/ BeginAnyHandshake
  \/ \E p \in Procs : ClientReady(p)
  \/ \E p \in Procs : ClientFail(p)
  \/ \E p \in Procs : QueueStart(p)
  \/ \E p \in Procs : MetaOk(p)
  \/ \E p \in Procs : AddOk(p)
  \/ \E p \in Procs : HeaderOk(p)
  \/ \E p \in Procs : ReadOk(p)
  \/ \E p \in Procs : WriteOk(p)
  \/ \E p \in Procs, code \in Codes : CallFail(p, code)

HandshakeSpec == Init /\ [][HandshakeNext]_vars

\* Event deliveries against a spreadsheet whose secrets table was filled by
\* earlier handshakes.
StoredTables ==
  { <<>>,
    <<Hdr>>,
    <<Hdr, [id |-> "wh1", secret |-> "s1"]>>,
    <<Hdr, [id |-> "wh1", secret |-> "s1"], [id |-> "wh2", secret |-> "s2"]>>,
    <<Hdr, [id |-> "wh1", secret |-> "s1"], BlankRow,
      [id |-> "wh2", secret |-> "s1"]>> }

VerifyInit ==
  /\ QueueIdle
  /\ secretSheet \in StoredTables
  /\ sheetExists = (secretSheet # <<>>)
  /\ req = [p \in Procs |-> NoReq]
  /\ started = 0
  /\ failures = 0
  /\ TaskIdle
  /\ RcIdle
  /\ HelperIdle
  /\ DeliveryIdle
  /\ TargetIdle

VerifyNext ==
  \/ BeginEvent
  \/ \E p \in Procs : ClientReady(p)
  \/ \E p \in Procs : ClientFail(p)
  \/ \E p \in Procs : QueueStart(p)
  \/ \E p \in Procs : MetaOk(p)
  \/ \E p \in Procs : AddOk(p)
  \/ \E p \in Procs : AddConflict(p)
  \/ \E p \in Procs : HeaderOk(p)
  \/ \E p \in Procs : ReadOk(p)
  \/ \E p \in Procs, code \in Codes : CallFail(p, code)
  \/ \E p \in Procs : EventDone(p)
  \/ \E p \in Procs : EventRateLimited(p)

VerifySpec == VerifyInit /\ [][VerifyNext]_vars

\* ------------------------------------------------------------------------
\* Event reconciliation: handleWebhookEvent on Sheet1
\* ------------------------------------------------------------------------
BlankTaskRow == [task |-> "", completed |-> "", assignee |-> ""]

\* findTaskRow: the first row after the header whose Task ID cell equals
\* taskId, as the 1-based row number; 0 stands for null.
FindTaskRow(sheet, taskId) ==
  IF \E i \in 2..Len(sheet) : sheet[i].task = taskId
    THEN CHOOSE i \in 2..Len(sheet) :
           sheet[i].task = taskId /\ \A j \in 2..(i - 1) : sheet[j].task # taskId
    ELSE 0

\* updateSpreadsheetRow: values.update of `Sheet1!A<row>:S<row>`.
UpdateRow(sheet, rowIndex, values) ==
  LET n == IF rowIndex > Len(sheet) THEN rowIndex ELSE Len(sheet)
  IN [i \in 1..n |-> IF i = rowIndex THEN values
                     ELSE IF i <= Len(sheet) THEN sheet[i] ELSE BlankTaskRow]

\* addSpreadsheetRow: values.append after the last row.
AddRow(sheet, values) == Append(sheet, values)

\* deleteSpreadsheetRow: deleteDimension of the rows [rowIndex - 1, rowIndex).
DeleteRow(sheet, rowIndex) ==
  IF rowIndex \in DOMAIN sheet
    THEN SubSeq(sheet, 1, rowIndex - 1) \o SubSeq(sheet, rowIndex + 1, Len(sheet))
    ELSE sheet

\* The tasks other than `task` that findTaskRow locates at another row (or no
\* longer locates) once `before` has become `after`.
MovedRows(before, after, task) ==
  {t \in Tasks \ {task} :
     FindTaskRow(before, t) # 0 /\ FindTaskRow(after, t) # FindTaskRow(before, t)}

\* The task that holds the given row ("" for an empty row).
TaskAt(sheet, rowIndex) ==
  IF rowIndex \in DOMAIN sheet THEN sheet[rowIndex].task ELSE ""

\* `taskData.completed || isAssignedToManager || isAssignedToWithdrawals ||
\* isAssignedToWithdraws`
ShouldAddRowAlways(completed, assignee) == TRUE

ShouldAddRow(completed, assignee) ==
  completed \/ assignee \in {"Manager", "Withdrawals", "Withdraws"}

IsUpsertAction(a) == a \in {"changed", "added"}
IsDeleteAction(a) == a \in {"removed", "deleted"}

EvFinish(e) == [e EXCEPT !.pc = "done"]

\* handleWebhookEvent once findTaskRow has returned rowIndex.
AfterFind(e, rowIndex, hadRow) ==
  LET f == [e EXCEPT !.rowIndex = rowIndex, !.hadRow = hadRow]
  IN IF IsUpsertAction(e.action)
       THEN IF rowIndex # 0
              THEN [f EXCEPT !.pc = "update", !.issued = e.issued + 1]
            ELSE IF ShouldAddRow(e.completed, e.assignee)
              THEN [f EXCEPT !.pc = "append", !.issued = e.issued + 1]
            ELSE EvFinish(f)
       ELSE IF rowIndex # 0 THEN [f EXCEPT !.pc = "verifyRow"]
                            ELSE EvFinish(f)

\* handleWebhookEvent rethrows.  The Express route runs it inside
\* sheetsRateLimiter, which re-queues the operation on a 429; the serverless
\* function logs the error and goes on.
EvThrew(e, code) ==
  IF e.handler = "express" /\ code = "429"
    THEN [e EXCEPT !.pc = "queued", !.completed = FALSE, !.assignee = "",
                   !.rowIndex = 0, !.hadRow = FALSE, !.issued = 0]
    ELSE [e EXCEPT !.pc = "done", !.threw = TRUE]

EvLimiterFree ==
  \A q \in Procs :
    ~(ev[q].handler = "express"
        /\ ev[q].pc \in {"client", "getTask", "find", "update", "append",
                         "verifyRow", "delete"})

\* A verified delivery hands one event to handleWebhookEvent.
EvBeginWith(handler, action, task) ==
  /\ started < MaxProcs
  /\ started' = started + 1
  /\ ev' = [ev EXCEPT ![started + 1] =
              [NoEv EXCEPT !.handler = handler, !.action = action,
                           !.task = task,
                           !.pc = IF handler = "express" THEN "queued"
                                                         ELSE "client"]]
  /\ UNCHANGED <<svars, dl, hvars, qvars, secretSheet, sheetExists, req, failures, taskSheet, rc>>

EvBegin ==
  \E handler \in EventHandlers, action \in EventActions, task \in Tasks :
    EvBeginWith(handler, action, task)

\* sheetsRateLimiter starts the operation of an Express event.
EvQueueStart(p) ==
  /\ ev[p].pc = "queued"
  /\ EvLimiterFree
  /\ ev' = [ev EXCEPT ![p].pc = "client"]
  /\ UNCHANGED <<svars, dl, hvars, qvars, wvars, taskSheet, rc>>

\* getGoogleSheetsClient returned.
EvClientReady(p) ==
  /\ ev[p].pc = "client"
  /\ ev' = [ev EXCEPT ![p].pc = IF IsUpsertAction(ev[p].action) THEN "getTask"
                                                               ELSE "find"]
  /\ UNCHANGED <<svars, dl, hvars, qvars, wvars, taskSheet, rc>>

\* tasksApi.getTask returned the task as it is upstream by now.
EvTaskFetched(p) ==
  /\ ev[p].pc = "getTask"
  /\ \E completed \in BOOLEAN, assignee \in Assignees :
       ev' = [ev EXCEPT ![p] = [ev[p] EXCEPT !.pc = "find",
                                             !.completed = completed,
                                             !.assignee = assignee]]
  /\ UNCHANGED <<svars, dl, hvars, qvars, wvars, taskSheet, rc>>

\* findTaskRow returned the row it found, or null.
EvFound(p) ==
  /\ ev[p].pc = "find"
  /\ LET row == FindTaskRow(taskSheet, ev[p].task)
     IN ev' = [ev EXCEPT ![p] = AfterFind(ev[p], row, row # 0)]
  /\ UNCHANGED <<svars, dl, hvars, qvars, wvars, taskSheet, rc>>

\* The read of findTaskRow failed: its catch returns null.
EvFindFailed(p) ==
  /\ ev[p].pc = "find"
  /\ failures < MaxFailures
  /\ failures' = failures + 1
  /\ ev' = [ev EXCEPT ![p] =
              AfterFind(ev[p], 0, FindTaskRow(taskSheet, ev[p].task) # 0)]
  /\ UNCHANGED <<svars, dl, hvars, qvars, secretSheet, sheetExists, req, started, taskSheet, rc>>

EvUpdateOk(p) ==
  /\ ev[p].pc = "update"
  /\ LET e == ev[p]
     IN /\ taskSheet' = UpdateRow(taskSheet, e.rowIndex,
                                  RowValues(e.task, e.completed, e.assignee))
        /\ ev' = [ev EXCEPT ![p] =
                    EvFinish([e EXCEPT !.nUpdate = e.nUpdate + 1,
                                       !.touched = TaskAt(taskSheet, e.rowIndex)])]
  /\ UNCHANGED <<svars, dl, hvars, qvars, wvars, rc>>

EvAppendOk(p) ==
  /\ ev[p].pc = "append"
  /\ LET e == ev[p]
     IN /\ taskSheet' = AddRow(taskSheet,
                               RowValues(e.task, e.completed, e.assignee))
        /\ ev' = [ev EXCEPT ![p] = EvFinish([e EXCEPT !.nAppend = e.nAppend + 1])]
  /\ UNCHANGED <<svars, dl, hvars, qvars, wvars, rc>>

\* deleteSpreadsheetRow: the read of the row to delete returned.
EvVerifyOk(p) ==
  /\ ev[p].pc = "verifyRow"
  /\ ev' = [ev EXCEPT ![p] = [ev[p] EXCEPT !.pc = "delete",
                                           !.issued = ev[p].issued + 1]]
  /\ UNCHANGED <<svars, dl, hvars, qvars, wvars, taskSheet, rc>>

EvDeleteOk(p) ==
  /\ ev[p].pc = "delete"
  /\ LET e == ev[p]
     IN /\ taskSheet' = DeleteRow(taskSheet, e.rowIndex)
        /\ ev' = [ev EXCEPT ![p] =
                    EvFinish([e EXCEPT !.nDelete = e.nDelete + 1,
                                       !.touched = TaskAt(taskSheet, e.rowIndex),
                                       !.moved = MovedRows(taskSheet, taskSheet', e.task)])]
  /\ UNCHANGED <<svars, dl, hvars, qvars, wvars, rc>>

\* getGoogleSheetsClient, getTask or a call on Sheet1 other than the read of
\* findTaskRow fails.
EvCallFail(p, code) ==
  /\ ev[p].pc \in {"client", "getTask", "update", "append", "verifyRow", "delete"}
  /\ failures < MaxFailures
  /\ failures' = failures + 1
  /\ ev' = [ev EXCEPT ![p] = EvThrew(ev[p], code)]
  /\ UNCHANGED <<svars, dl, hvars, qvars, secretSheet, sheetExists, req, started, taskSheet, rc>>

\* Sheet1 as the export and earlier events leave it.
TaskTables ==
  { <<TaskHdr>>,
    <<TaskHdr, RowValues("t1", TRUE, "")>>,
    <<TaskHdr, RowValues("t1", TRUE, ""), RowValues("t2", FALSE, "Manager")>> }

ReconcileInit ==
  /\ QueueIdle
  /\ WebhookIdle
  /\ taskSheet \in TaskTables
  /\ ev = [p \in Procs |-> NoEv]
  /\ RcIdle
  /\ HelperIdle
  /\ DeliveryIdle
  /\ TargetIdle

ReconcileNext ==
  \/ EvBegin
  \/ \E p \in Procs : EvQueueStart(p)
  \/ \E p \in Procs : EvClientReady(p)
  \/ \E p \in Procs : EvTaskFetched(p)
  \/ \E p \in Procs : EvFound(p)
  \/ \E p \in Procs : EvFindFailed(p)
  \/ \E p \in Procs : EvUpdateOk(p)
  \/ \E p \in Procs : EvAppendOk(p)
  \/ \E p \in Procs : EvVerifyOk(p)
  \/ \E p \in Procs : EvDeleteOk(p)
  \/ \E p \in Procs, code \in Codes : EvCallFail(p, code)

ReconcileSpec == ReconcileInit /\ [][ReconcileNext]_vars

\* ------------------------------------------------------------------------
\* recreateWebhook of importWorkspaceWebhooks.cjs, next to the handler
\* api/webhook.js that receives the handshake of the webhook it creates
\* ------------------------------------------------------------------------
ClientId == "client-1"      \* `client-${Date.now()}-${random}`
NewGid == "gid-2"           \* created.data.data.gid
Pending == "<pending-secret>"

\* rows.find(r => r[0] === id), as the row itself; BlankRow if there is none.
FindRow(rows, id) ==
  IF FindIndex(rows, id) = 0 THEN BlankRow ELSE rows[FindIndex(rows, id)]

\* The secret one poll captures from the rows it read, or "none".
Captured(rows) ==
  LET clientRow == FindRow(rows, ClientId)
      gidRows == {i \in 1..Len(rows) :
                    rows[i].id = NewGid /\ rows[i].secret \notin {"", Pending}}
  IN IF clientRow.id = ClientId /\ clientRow.secret \notin {"", Pending}
       THEN clientRow.secret
     ELSE IF gidRows # {}
       THEN rows[CHOOSE i \in gidRows : \A j \in gidRows : i <= j].secret
     ELSE "none"

\* values.update of one row with [['', '']].
DeleteRowAt(sheet, rowNum) ==
  SubSeq(sheet, 1, rowNum - 1) \o SubSeq(sheet, rowNum + 1, Len(sheet))

BlankRowAt(sheet, rowNum) == [sheet EXCEPT ![rowNum] = BlankRow]

\* The secret appendOrUpdate writes in the current stage.
RcSecret(r) == IF r.stage = "placeholder" THEN Pending ELSE r.captured

\* What the poll loop does with the rows of one read.
AfterPoll(r, rows) ==
  IF Captured(rows) # "none"
    THEN [r EXCEPT !.captured = Captured(rows), !.pc = "meta", !.stage = "store"]
  ELSE IF r.polls + 1 >= MaxPolls THEN [r EXCEPT !.polls = r.polls + 1, !.pc = "done"]
  ELSE [r EXCEPT !.polls = r.polls + 1]

\* The rows of the second read: the row of the client id is blanked, if any.
AfterRead2(r, rows) ==
  IF FindIndex(rows, ClientId) = 0
    THEN [r EXCEPT !.pc = "done"]
    ELSE [r EXCEPT !.pc = "blank", !.target = RowNum(FindIndex(rows, ClientId))]

\* The webhook was created: appendOrUpdate(newGid, '<pending-secret>') begins.
RcStart ==
  /\ rc.pc = "idle"
  /\ rc' = [rc EXCEPT !.pc = "meta", !.stage = "placeholder"]
  /\ UNCHANGED <<svars, dl, hvars, qvars, wvars, taskSheet, ev>>

\* Asana sends the handshake of the new webhook to /api/webhook with
\* clientWebhookId in the query.
BeginClientHandshake ==
  /\ rc.pc # "idle"
  /\ \E secret \in Secrets :
       Begin("api", secret, "none", Compact, TRUE,
             [hdr |-> "none", query |-> ClientId, body |-> "none"])

RcMetaOk ==
  /\ rc.pc = "meta"
  /\ rc' = [rc EXCEPT !.pc = IF sheetExists THEN "read" ELSE "add"]
  /\ UNCHANGED <<svars, dl, hvars, qvars, wvars, taskSheet, ev>>

RcAddOk ==
  /\ rc.pc = "add"
  /\ ~sheetExists
  /\ sheetExists' = TRUE
  /\ rc' = [rc EXCEPT !.pc = "header"]
  /\ UNCHANGED <<svars, dl, hvars, qvars, secretSheet, req, started, failures, taskSheet, ev>>

RcAddConflict ==
  /\ rc.pc = "add"
  /\ sheetExists
  /\ rc' = [rc EXCEPT !.pc = "failed"]
  /\ UNCHANGED <<svars, dl, hvars, qvars, wvars, taskSheet, ev>>

RcHeaderOk ==
  /\ rc.pc = "header"
  /\ secretSheet' = WriteHeader(secretSheet)
  /\ rc' = [rc EXCEPT !.pc = "read"]
  /\ UNCHANGED <<svars, dl, hvars, qvars, sheetExists, req, started, failures, taskSheet, ev>>

RcReadOk ==
  /\ rc.pc = "read"
  /\ rc' = [rc EXCEPT !.pc = "write",
                      !.target = UpsertTarget(DataRows(secretSheet), NewGid)]
  /\ UNCHANGED <<svars, dl, hvars, qvars, wvars, taskSheet, ev>>

RcWriteOk ==
  /\ rc.pc = "write"
  /\ secretSheet' = ApplyWrite(secretSheet, rc.target, NewGid, RcSecret(rc))
  /\ rc' = [rc EXCEPT !.pc = IF rc.stage = "placeholder" THEN "poll" ELSE "read2",
                      !.target = 0]
  /\ UNCHANGED <<svars, dl, hvars, qvars, sheetExists, req, started, failures, taskSheet, ev>>

RcPollOk ==
  /\ rc.pc = "poll"
  /\ rc' = AfterPoll(rc, DataRows(secretSheet))
  /\ UNCHANGED <<svars, dl, hvars, qvars, wvars, taskSheet, ev>>

RcRead2Ok ==
  /\ rc.pc = "read2"
  /\ rc' = AfterRead2(rc, DataRows(secretSheet))
  /\ UNCHANGED <<svars, dl, hvars, qvars, wvars, taskSheet, ev>>

\* A read whose failure is caught: `.catch(() => ({ data: { values: [] } }))`.
RcReadFailed ==
  /\ rc.pc \in {"read", "poll", "read2"}
  /\ failures < MaxFailures
  /\ failures' = failures + 1
  /\ rc' = CASE rc.pc = "read" ->
                  [rc EXCEPT !.pc = "write", !.target = UpsertTarget(<<>>, NewGid)]
             [] rc.pc = "poll" -> AfterPoll(rc, <<>>)
             [] OTHER -> AfterRead2(rc, <<>>)
  /\ UNCHANGED <<svars, dl, hvars, qvars, secretSheet, sheetExists, req, started, taskSheet, ev>>

RcBlankOk ==
  /\ rc.pc = "blank"
  /\ secretSheet' = BlankRowAt(secretSheet, rc.target)
  /\ rc' = [rc EXCEPT !.pc = "done", !.blanked = rc.target,
                      !.before = secretSheet,
                      !.after = BlankRowAt(secretSheet, rc.target)]
  /\ UNCHANGED <<svars, dl, hvars, qvars, sheetExists, req, started, failures, taskSheet, ev>>

\* Any other call fails: recreateWebhook throws.
RcCallFail ==
  /\ rc.pc \in {"meta", "add", "header", "write", "blank"}
  /\ failures < MaxFailures
  /\ failures' = failures + 1
  /\ rc' = [rc EXCEPT !.pc = "failed"]
  /\ UNCHANGED <<svars, dl, hvars, qvars, secretSheet, sheetExists, req, started, taskSheet, ev>>

RecreateNext ==
  \/ RcStart
  \/ BeginClientHandshake
  \/ \E p \in Procs : ClientReady(p)
  \/ \E p \in Procs : ClientFail(p)
  \/ \E p \in Procs : MetaOk(p)
  \/ \E p \in Procs : AddOk(p)
  \/ \E p \in Procs : AddConflict(p)
  \/ \E p \in Procs : HeaderOk(p)
  \/ \E p \in Procs : ReadOk(p)
  \/ \E p \in Procs : WriteOk(p)
  \/ \E p \in Procs, code \in Codes : CallFail(p, code)
  \/ RcMetaOk
  \/ RcAddOk
  \/ RcAddConflict
  \/ RcHeaderOk
  \/ RcReadOk
  \/ RcWriteOk
  \/ RcPollOk
  \/ RcRead2Ok
  \/ RcReadFailed
  \/ RcBlankOk
  \/ RcCallFail

RecreateSpec == Init /\ [][RecreateNext]_vars

\* ------------------------------------------------------------------------
\* Handshakes and events whose ids equal the header texts, handled one after
\* the other
\* ------------------------------------------------------------------------
HeaderWebhookIds == {"wh1", Hdr.id}
HeaderTasks == {"t1", TaskHdr.task}

\* webhook_secrets and Sheet1 as earlier handshakes and events for those ids
\* leave them.
HeaderSecretTables ==
  { <<>>,
    <<Hdr>>,
    <<Hdr, [id |-> "wh1", secret |-> "s1"], [id |-> Hdr.id, secret |-> "s1"]>> }

HeaderTaskTables ==
  { <<TaskHdr>>,
    <<TaskHdr, RowValues("t1", TRUE, ""), RowValues(TaskHdr.task, TRUE, "")>> }

HeaderInit ==
  /\ QueueIdle
  /\ secretSheet \in HeaderSecretTables
  /\ sheetExists = (secretSheet # <<>>)
  /\ req = [p \in Procs |-> NoReq]
  /\ started = 0
  /\ failures = 0
  /\ taskSheet \in HeaderTaskTables
  /\ ev = [p \in Procs |-> NoEv]
  /\ RcIdle
  /\ HelperIdle
  /\ DeliveryIdle
  /\ TargetIdle

EvQuiet == \A q \in Procs : ev[q].pc \in {"new", "done"}

HeaderBeginHandshake ==
  /\ AllQuiet
  /\ EvQuiet
  /\ \E handler \in Handlers, secret \in Secrets, wid \in HeaderWebhookIds :
       Begin(handler, secret, "none", Compact, TRUE, SameIds(wid))

HeaderBeginEvent ==
  /\ AllQuiet
  /\ EvQuiet
  /\ \E handler \in EventHandlers, action \in EventActions, task \in HeaderTasks :
       EvBeginWith(handler, action, task)

HeaderNext ==
  \/ HeaderBeginHandshake
  \/ HeaderBeginEvent
  \/ \E p \in Procs : ClientReady(p)
  \/ \E p \in Procs : ClientFail(p)
  \/ \E p \in Procs : QueueStart(p)
  \/ \E p \in Procs : MetaOk(p)
  \/ \E p \in Procs : AddOk(p)
  \/ \E p \in Procs : HeaderOk(p)
  \/ \E p \in Procs : ReadOk(p)
  \/ \E p \in Procs : WriteOk(p)
  \/ \E p \in Procs, code \in Codes : CallFail(p, code)
  \/ \E p \in Procs : EvQueueStart(p)
  \/ \E p \in Procs : EvClientReady(p)
  \/ \E p \in Procs : EvTaskFetched(p)
  \/ \E p \in Procs : EvFound(p)
  \/ \E p \in Procs : EvFindFailed(p)
  \/ \E p \in Procs : EvUpdateOk(p)
  \/ \E p \in Procs : EvAppendOk(p)
  \/ \E p \in Procs : EvVerifyOk(p)
  \/ \E p \in Procs : EvDeleteOk(p)
  \/ \E p \in Procs, code \in Codes : EvCallFail(p, code)

HeaderSpec == HeaderInit /\ [][HeaderNext]_vars

\* ------------------------------------------------------------------------
\* The event loop of one verified delivery: processEvents of the Express
\* route, which hands every event to sheetsRateLimiter, and the loop of the
\* serverless function, which awaits handleWebhookEvent itself
\* ------------------------------------------------------------------------
\* req.body.events of the delivery.
DeliveryEvents == Parse(Compact).events

\* The events the loop has not handed over yet.
EventsLeft == Len(DeliveryEvents) - Len(dl.ops)

\* The loop after the event it is at has settled.
AfterEvent(d, threw) ==
  [d EXCEPT !.next = d.next + 1,
            !.failed = IF threw THEN d.failed \cup {d.next} ELSE d.failed,
            !.pc = IF d.next + 1 > Len(DeliveryEvents) THEN "done" ELSE "loop"]

\* The signature is valid: `res.sendStatus(200)` / `res.end('OK')`, then the
\* loop over the events is started.
DlVerified ==
  /\ dl.pc = "idle"
  /\ \E handler \in EventHandlers :
       dl' = [NoDl EXCEPT !.pc = "loop", !.handler = handler, !.status = 200,
                          !.next = 1]
  /\ UNCHANGED <<svars, hvars, wvars, tvars, qvars>>

\* `await sheetsRateLimiter.enqueue(() => handleWebhookEvent(event, ...))`
DlEnqueue ==
  /\ dl.pc = "loop"
  /\ dl.handler = "express"
  /\ enqueued < MaxOps
  /\ Push(enqueued + 1)
  /\ dl' = [dl EXCEPT !.pc = "await", !.ops = Append(dl.ops, enqueued + 1)]
  /\ UNCHANGED <<svars, hvars, wvars, tvars, minDelayTimers, backoffTimers, fails429, exportPc>>

\* The promise of enqueue settled: resolved, or rejected into the catch of
\* the loop body.
DlSettled ==
  /\ dl.pc = "await"
  /\ LET op == dl.ops[Len(dl.ops)]
     IN /\ promise[op] \in {"resolved", "rejected"}
        /\ dl' = AfterEvent(dl, promise[op] = "rejected")
  /\ UNCHANGED <<svars, hvars, wvars, tvars, qvars>>

\* `await handleWebhookEvent(event, spreadsheetId)` of the serverless loop.
DlCall ==
  /\ dl.pc = "loop"
  /\ dl.handler = "vercel"
  /\ dl' = [dl EXCEPT !.pc = "running"]
  /\ UNCHANGED <<svars, hvars, wvars, tvars, qvars>>

DlEventReturned ==
  /\ dl.pc = "running"
  /\ dl' = AfterEvent(dl, FALSE)
  /\ UNCHANGED <<svars, hvars, wvars, tvars, qvars>>

DlEventThrew ==
  /\ dl.pc = "running"
  /\ dl' = AfterEvent(dl, TRUE)
  /\ UNCHANGED <<svars, hvars, wvars, tvars, qvars>>

\* Another request enqueues an operation; the model keeps room for the
\* events of the delivery.
OtherEnqueue ==
  /\ enqueued + (IF dl.handler = "vercel" THEN 0 ELSE EventsLeft) < MaxOps
  /\ Enqueue

DlStep ==
  DlVerified \/ DlEnqueue \/ DlSettled \/ DlCall \/ DlEventReturned \/ DlEventThrew

DeliveryNext ==
  \/ DlVerified
  \/ DlEnqueue
  \/ DlSettled
  \/ DlCall
  \/ DlEventReturned
  \/ DlEventThrew
  \/ OtherEnqueue
  \/ \E op \in Ops : OpWrite(op)
  \/ \E op \in Ops : OpSucceed(op)
  \/ \E op \in Ops : OpFail(op)
  \/ \E op \in Ops : OpRateLimited(op)
  \/ MinDelayFire
  \/ \E b \in backoffTimers : BackoffFire(b)

DeliverySpec == QueueInit /\ [][DeliveryNext]_vars

\* Timers fire, calls in flight return and the loop takes its next step;
\* nothing obliges another request to arrive.
DeliveryLiveSpec ==
  /\ QueueInit
  /\ [][DeliveryNext]_vars
  /\ WF_vars(MinDelayFire)
  /\ WF_vars(\E b \in backoffTimers : BackoffFire(b))
  /\ WF_vars(OpFinish)
  /\ WF_vars(DlStep)

\* ------------------------------------------------------------------------
\* The retry helpers
\* ------------------------------------------------------------------------
IsServerError(status) == status >= 500 /\ status < 600

\* What the catch block does with the error of the call of iteration
\* `attempt`: "retry" when it reaches `continue` or falls through to the next
\* iteration, "throw" when it throws the error.
OnError(helper, status, attempt, maxRetries) ==
  CASE helper = "fetchWithRetry" ->
         IF status = 429 /\ attempt < maxRetries - 1 THEN "retry"
         ELSE IF status # NoStatus /\ IsServerError(status)
                   /\ attempt < maxRetries - 1 THEN "retry"
         ELSE "throw"
    [] helper = "retryOperation.manage" ->
         IF status = 429 THEN "retry"
         ELSE IF IsServerError(status) THEN "retry"
         ELSE IF attempt < maxRetries - 1 THEN "retry"
         ELSE "throw"
    [] OTHER ->
         IF status = 429 THEN "retry"
         ELSE IF attempt = maxRetries - 1 THEN "throw"
         ELSE "retry"

\* The run after a call that failed with `status`: the next iteration, or the
\* error thrown, from the catch block or by `throw lastError` after the loop.
AfterError(r, status) ==
  LET r1 == [r EXCEPT !.calls = r.calls + 1,
                      !.outcomes = Append(r.outcomes, status)]
  IN IF OnError(r.helper, status, r.attempt, r.maxRetries) = "retry"
          /\ r.attempt + 1 < r.maxRetries
       THEN [r1 EXCEPT !.attempt = r.attempt + 1]
       ELSE [r1 EXCEPT !.pc = "done", !.result = "threw", !.thrown = status]

\* A caller hands a function to a retry helper.
RtStart ==
  /\ HelperIdle
  /\ \E helper \in RetryHelpers :
       \E maxRetries \in RetryLimits(helper) :
         rt' = [NoRt EXCEPT !.pc = "call", !.helper = helper,
                            !.maxRetries = maxRetries]
  /\ UNCHANGED <<svars, dl, qvars, wvars, tvars, pg, cf, wr>>

\* `return await fetchFunction()` / `return await operation()`
RtCallOk ==
  /\ rt.pc = "call"
  /\ rt' = [rt EXCEPT !.calls = rt.calls + 1,
                      !.outcomes = Append(rt.outcomes, 200),
                      !.pc = "done", !.result = "returned"]
  /\ UNCHANGED <<svars, dl, qvars, wvars, tvars, pg, cf, wr>>

\* The wrapped call fails.
RtCallFail ==
  /\ rt.pc = "call"
  /\ \E status \in ErrorStatuses : rt' = AfterError(rt, status)
  /\ UNCHANGED <<svars, dl, qvars, wvars, tvars, pg, cf, wr>>

\* ------------------------------------------------------------------------
\* getAllPages
\* ------------------------------------------------------------------------
\* The pages of the upstream collection: the chain of next_page offsets is
\* finite, the page at offset MaxPages - 1 is the last one.
MaxPages == 2

MAX_CONSECUTIVE_ERRORS == 3

\* What fetchWithRetry may return for the page at `offset`: with or without
\* `data`, with or without `next_page.offset` (0 stands for none).
Responses(offset) ==
  {[data |-> IF d THEN <<offset + 1>> ELSE <<>>, next |-> n] :
     d \in BOOLEAN,
     n \in {0} \cup (IF offset + 1 < MaxPages THEN {offset + 1} ELSE {})}

AfterPageOkNoReset(g, resp) ==
  [g EXCEPT !.results = g.results \o resp.data,
            !.offset = IF resp.next # 0 THEN resp.next ELSE g.offset,
            !.calls = IF resp.next # 0 THEN 0 ELSE g.calls,
            !.pc = IF resp.next # 0 THEN "loop" ELSE "returned",
            !.history = Append(g.history, [ok |-> TRUE, data |-> resp.data,
                                           next |-> resp.next,
                                           offset |-> g.offset])]

AfterPageOkKeepsOffset(g, resp) ==
  [g EXCEPT !.results = g.results \o resp.data,
            !.consecutiveErrors = 0,
            !.pc = IF resp.next # 0 THEN "loop" ELSE "returned",
            !.history = Append(g.history, [ok |-> TRUE, data |-> resp.data,
                                           next |-> resp.next,
                                           offset |-> g.offset])]

\* The try block, passed without an error.
AfterPageOk(g, resp) ==
  [g EXCEPT !.results = g.results \o resp.data,
            !.consecutiveErrors = 0,
            !.offset = IF resp.next # 0 THEN resp.next ELSE g.offset,
            !.calls = IF resp.next # 0 THEN 0 ELSE g.calls,
            !.pc = IF resp.next # 0 THEN "loop" ELSE "returned",
            !.history = Append(g.history, [ok |-> TRUE, data |-> resp.data,
                                           next |-> resp.next,
                                           offset |-> g.offset])]

AfterPageErrorNoBreak(g) ==
  [g EXCEPT !.consecutiveErrors = g.consecutiveErrors + 1,
            !.history = Append(g.history, [ok |-> FALSE, data |-> <<>>,
                                           next |-> 0, offset |-> g.offset])]

\* The catch block.
AfterPageError(g) ==
  [g EXCEPT !.consecutiveErrors = g.consecutiveErrors + 1,
            !.pc = IF g.consecutiveErrors + 1 >= MAX_CONSECUTIVE_ERRORS
                     THEN "returned" ELSE "loop",
            !.history = Append(g.history, [ok |-> FALSE, data |-> <<>>,
                                           next |-> 0, offset |-> g.offset])]

\* getAllPages with the upstream calls of the fetchWithRetry that has just
\* settled counted for the offset it fetched.
Fetched(g) == [g EXCEPT !.calls = g.calls + rt.calls]

PgStart ==
  /\ HelperIdle
  /\ pg' = [NoPg EXCEPT !.pc = "loop"]
  /\ UNCHANGED <<svars, dl, qvars, wvars, tvars, rt, cf, wr>>

\* `await delay(250)` is over: fetchWithRetry is called with its defaults
\* for the page at the current offset.
PgFetch ==
  /\ pg.pc = "loop"
  /\ rt = NoRt
  /\ \E maxRetries \in RetryLimits("fetchWithRetry") :
       rt' = [NoRt EXCEPT !.pc = "call", !.helper = "fetchWithRetry",
                          !.maxRetries = maxRetries]
  /\ UNCHANGED <<svars, dl, qvars, wvars, tvars, pg, cf, wr>>

\* fetchWithRetry returned the response of fetchFunction(offset).
PgPageOk ==
  /\ pg.pc = "loop"
  /\ rt.pc = "done" /\ rt.result = "returned"
  /\ \E resp \in Responses(pg.offset) : pg' = AfterPageOk(Fetched(pg), resp)
  /\ rt' = NoRt
  /\ UNCHANGED <<svars, dl, qvars, wvars, tvars, cf, wr>>

\* fetchWithRetry threw, or reading what it returned did.
PgPageFail ==
  /\ pg.pc = "loop"
  /\ rt.pc = "done"
  /\ pg' = AfterPageError(Fetched(pg))
  /\ rt' = NoRt
  /\ UNCHANGED <<svars, dl, qvars, wvars, tvars, cf, wr>>

\* ------------------------------------------------------------------------
\* processTaskData
\* ------------------------------------------------------------------------
\* The workspace whose tasks carry the lowercase "balance" field.
BalanceWorkspace == Str("1205846480740952")

\* fieldNames, after the push of "balance" for that workspace.
FieldNames(workspaceId) ==
  {"Worker", "Status", "Paid with...", "Deposit", "Bonus", "Max bet", "WG",
   "Max win", "Balance", "Groups", "Received", "RM/BM"}
    \cup (IF workspaceId = BalanceWorkspace THEN {"balance"} ELSE {})

\* What `if (x)` takes for true.
Truthy(x) ==
  /\ x.t \notin {"null", "undefined"}
  /\ x # Str("")
  /\ x # Num("0")

ExtractValueTextFirst(field) ==
  IF Truthy(field.enum_value) THEN Str(field.enum_value.v)
  ELSE IF Truthy(field.text_value) THEN field.text_value
  ELSE IF field.number_value.t \notin {"null", "undefined"} THEN field.number_value
  ELSE field.display_value

\* The value assigned to customFieldValues[field.name].
ExtractValue(field) ==
  IF Truthy(field.enum_value) THEN Str(field.enum_value.v)
  ELSE IF field.number_value.t \notin {"null", "undefined"} THEN field.number_value
  ELSE IF Truthy(field.text_value) THEN field.text_value
  ELSE field.display_value

\* The last field of that name: forEach assigns in order, the last one stays.
LastNamed(fields, name) ==
  CHOOSE i \in 1..Len(fields) :
    fields[i].name = name /\ \A j \in (i + 1)..Len(fields) : fields[j].name # name

\* customFieldValues after the forEach.
CustomFieldValues(fields, workspaceId) ==
  LET names == {fields[i].name : i \in 1..Len(fields)} \cap FieldNames(workspaceId)
  IN [n \in names |-> ExtractValue(fields[LastNamed(fields, n)])]

\* The keys of the returned object that do not come from the custom fields;
\* the controller's version adds task_id.
FixedKeys(module) ==
  {"task_name", "assignee", "completed_at", "completed"}
    \cup (IF module = "controller" THEN {"task_id"} ELSE {})

\* Their values for a task {name: "T", gid: "t1", assignee: null,
\* completed_at: null, completed: false}.
FixedValue(module, key) ==
  CASE key = "task_name" -> Str("T")
    [] key = "task_id" -> Str("t1")
    [] key = "completed" -> [t |-> "boolean", v |-> "false"]
    [] OTHER -> IF module = "controller" THEN Null ELSE Str("")

\* The returned object: the fixed keys, then `...customFieldValues`.
ProcessTaskData(module, fields, workspaceId) ==
  LET custom == CustomFieldValues(fields, workspaceId)
  IN [k \in FixedKeys(module) \cup DOMAIN custom |->
        IF k \in DOMAIN custom THEN custom[k] ELSE FixedValue(module, k)]

\* Custom fields as the task API returns them.
Fields ==
  [name : {"Balance", "balance", "Notes"},
   enum_value : {Null, Obj("Paid")},
   number_value : {Null, Undefined, Num("0"), Num("5")},
   text_value : {Null, Str(""), Str("abc")},
   display_value : {Null, Str("shown")}]

\* A second field, to follow one of the same or of another name.
SecondFields ==
  {[name |-> n, enum_value |-> Null, number_value |-> Null,
    text_value |-> Str("second"), display_value |-> Str("second")] :
     n \in {"Balance", "balance", "Notes"}}

FieldLists ==
  {<<>>} \cup {<<f>> : f \in Fields} \cup {<<f, g>> : f \in Fields, g \in SecondFields}

\* The second argument: the special workspace, another one, or nothing.
WorkspaceIds == {BalanceWorkspace, Str("1111"), Undefined}

ProcessTask ==
  /\ HelperIdle
  /\ \E module \in {"asana", "controller"}, fields \in FieldLists,
        workspaceId \in WorkspaceIds :
       cf' = [pc |-> "done", module |-> module, fields |-> fields,
              workspaceId |-> workspaceId,
              result |-> ProcessTaskData(module, fields, workspaceId)]
  /\ UNCHANGED <<svars, dl, qvars, wvars, tvars, rt, pg, wr>>

\* ------------------------------------------------------------------------
\* handleWebhookEvent, changed/added: the row it builds and writes
\* ------------------------------------------------------------------------
\* `x || ""`
OrEmpty(x) == IF Truthy(x) THEN x ELSE Str("")

\* obj[key], undefined for a key the object does not have.
Lookup(obj, key) == IF key \in DOMAIN obj THEN obj[key] ELSE Undefined

\* The custom field columns of the header, E to P.
FieldColumns ==
  <<"Worker", "Status", "Paid with...", "Deposit", "Bonus", "Max bet", "WG",
    "Max win", "Balance", "Groups", "Received", "RM/BM">>

\* rowValues, for a task {name: "T", gid: "t1"} of project {name: "P",
\* gid: "p1"}, with the push of the lowercase balance.
BuildRowValues(processed, workspaceId, completed) ==
  <<Str("P"), processed["task_name"], OrEmpty(processed["assignee"]),
    processed["completed_at"]>>
    \o [i \in 1..Len(FieldColumns) |-> OrEmpty(Lookup(processed, FieldColumns[i]))]
    \o <<Str("p1"), Str("t1"), Str(IF completed THEN "Yes" ELSE "No")>>
    \o (IF workspaceId = BalanceWorkspace
          THEN <<OrEmpty(Lookup(processed, "balance"))>> ELSE <<>>)

\* The columns of the range A:S that updateSpreadsheetRow and
\* addSpreadsheetRow name.
RangeColumns == 19

\* values.update refuses values that reach beyond the range it is given
\* ("Requested writing within range ..., but tried writing to column [T]");
\* values.append takes the range for the place of the table only.
WriteAccepted(path, values) == path = "append" \/ Len(values) <= RangeColumns

\* The custom fields of the task fetched: with or without a lowercase
\* balance, the Balance sometimes 0.
BalanceFields ==
  { <<>>,
    <<[name |-> "Balance", enum_value |-> Null, number_value |-> Num("0"),
       text_value |-> Null, display_value |-> Str("0")]>>,
    <<[name |-> "Balance", enum_value |-> Null, number_value |-> Num("7"),
       text_value |-> Null, display_value |-> Str("7")]>>,
    <<[name |-> "Balance", enum_value |-> Null, number_value |-> Num("7"),
       text_value |-> Null, display_value |-> Str("7")],
      [name |-> "balance", enum_value |-> Null, number_value |-> Num("5"),
       text_value |-> Null, display_value |-> Str("5")]>> }

\* The workspace of the project of the task.
TaskWorkspaces == {BalanceWorkspace, Str("1111")}

\* `taskData.memberships[0]?.project?.workspace?.gid`: opt_fields (line 460)
\* asks for memberships.project.name and memberships.project.gid only, so
\* the answer may come without the workspace of the project.
WorkspaceIdOf(workspace, returned) == IF returned THEN workspace ELSE Undefined

\* The changed/added branch for a task that has a row (update) or has none
\* and is completed (append).
HandleUpsert ==
  /\ HelperIdle
  /\ \E workspace \in TaskWorkspaces, returned \in BOOLEAN,
        fields \in BalanceFields, hadRow \in BOOLEAN, completed \in BOOLEAN :
       LET workspaceId == WorkspaceIdOf(workspace, returned)
           processed == ProcessTaskData("asana", fields, workspaceId)
           values == BuildRowValues(processed, workspaceId, completed)
           path == IF hadRow THEN "update"
                   ELSE IF completed THEN "append" ELSE "skip"
       IN wr' = [pc |-> "done", workspace |-> workspace,
                 workspaceId |-> workspaceId, fields |-> fields,
                 path |-> path, values |-> values,
                 written |-> IF path # "skip" /\ WriteAccepted(path, values)
                               THEN values ELSE <<>>,
                 threw |-> path # "skip" /\ ~WriteAccepted(path, values)]
  /\ UNCHANGED <<svars, dl, qvars, wvars, tvars, rt, pg, cf>>

\* One run of one helper.
HelperNext ==
  \/ RtStart
  \/ RtCallOk
  \/ RtCallFail
  \/ PgStart
  \/ PgFetch
  \/ PgPageOk
  \/ PgPageFail
  \/ ProcessTask
  \/ HandleUpsert

HelperSpec == Init /\ [][HelperNext]_vars

\* Every call in flight settles and every delay elapses: the wrapped call of
\* a retry helper returns or fails, and getAllPages goes on once its delay or
\* its fetchWithRetry has settled.
PaginationLiveSpec ==
  /\ HelperSpec
  /\ WF_vars(PgFetch)
  /\ WF_vars(RtCallOk \/ RtCallFail)
  /\ WF_vars(PgPageOk \/ PgPageFail)

\* ------------------------------------------------------------------------
\* The spreadsheet the calls of handleWebhookEvent address
\* ------------------------------------------------------------------------
\* setSpreadsheetId
SetSpreadsheetId(id) == spreadsheetCache' = id

\* getSpreadsheetId: the value of spreadsheetCache.id when the call is built.
GetSpreadsheetId == spreadsheetCache

\* A call on the spreadsheet is sent with `spreadsheetId: getSpreadsheetId()`.
HwCall(h, pc) ==
  [h EXCEPT !.pc = pc, !.addressed = h.addressed \cup {GetSpreadsheetId}]

\* sheetsRateLimiter runs one operation at a time.
HwLimiterFree ==
  \A q \in Procs : ~(hw[q].handler = "express" /\ hw[q].pc \notin {"idle", "done"})

\* handleWebhookEvent(event, spreadsheetId) is called: by sheetsRateLimiter
\* for the Express route, by the event loop itself in the serverless function.
\* The calls of one behaviour are those of one process, which has one copy of
\* spreadsheetCache.
HwBegin(p) ==
  /\ hw[p].pc = "idle"
  /\ \A q \in Procs : q < p => hw[q].pc # "idle"
  /\ \E handler \in EventHandlers, action \in EventActions, sheetId \in SheetIds :
       /\ \A q \in Procs : hw[q].handler \in {"none", handler}
       /\ handler = "express" => HwLimiterFree
       /\ hw' = [hw EXCEPT ![p] = [NoHw EXCEPT !.pc = "client",
                                              !.handler = handler,
                                              !.action = action,
                                              !.sheetId = sheetId]]
  /\ UNCHANGED <<spreadsheetCache, dl, hvars, qvars, wvars, tvars>>

\* `await getGoogleSheetsClient()` returned: setSpreadsheetId(spreadsheetId);
\* a removed or deleted event calls findTaskRow in the same step.
HwClientReady(p) ==
  /\ hw[p].pc = "client"
  /\ SetSpreadsheetId(hw[p].sheetId)
  /\ hw' = [hw EXCEPT ![p] =
              IF IsUpsertAction(hw[p].action)
                THEN [hw[p] EXCEPT !.pc = "getTask"]
                ELSE [hw[p] EXCEPT !.pc = "find",
                                   !.addressed = hw[p].addressed \cup {hw[p].sheetId}]]
  /\ UNCHANGED <<dl, hvars, qvars, wvars, tvars>>

\* `await tasksApiInstance.getTask` returned: findTaskRow sends its read.
HwTaskFetched(p) ==
  /\ hw[p].pc = "getTask"
  /\ hw' = [hw EXCEPT ![p] = HwCall(hw[p], "find")]
  /\ UNCHANGED <<spreadsheetCache, dl, hvars, qvars, wvars, tvars>>

\* findTaskRow returned a row: updateSpreadsheetRow sends its write, or
\* deleteSpreadsheetRow the read of the row.
HwFound(p) ==
  /\ hw[p].pc = "find"
  /\ hw' = [hw EXCEPT ![p] =
              HwCall(hw[p], IF IsUpsertAction(hw[p].action) THEN "write"
                                                            ELSE "verifyRow")]
  /\ UNCHANGED <<spreadsheetCache, dl, hvars, qvars, wvars, tvars>>

\* findTaskRow returned null: addSpreadsheetRow sends its write, or nothing
\* is left to do.
HwNotFound(p) ==
  /\ hw[p].pc = "find"
  /\ \E add \in BOOLEAN :
       hw' = [hw EXCEPT ![p] =
                IF IsUpsertAction(hw[p].action) /\ add
                  THEN HwCall(hw[p], "write")
                  ELSE [hw[p] EXCEPT !.pc = "done"]]
  /\ UNCHANGED <<spreadsheetCache, dl, hvars, qvars, wvars, tvars>>

\* deleteSpreadsheetRow: the read of the row returned, batchUpdate is sent.
HwVerifyOk(p) ==
  /\ hw[p].pc = "verifyRow"
  /\ hw' = [hw EXCEPT ![p] = HwCall(hw[p], "write")]
  /\ UNCHANGED <<spreadsheetCache, dl, hvars, qvars, wvars, tvars>>

\* The write returned.
HwWriteOk(p) ==
  /\ hw[p].pc = "write"
  /\ hw' = [hw EXCEPT ![p].pc = "done"]
  /\ UNCHANGED <<spreadsheetCache, dl, hvars, qvars, wvars, tvars>>

TargetNext ==
  \E p \in Procs :
    \/ HwBegin(p)
    \/ HwClientReady(p)
    \/ HwTaskFetched(p)
    \/ HwFound(p)
    \/ HwNotFound(p)
    \/ HwVerifyOk(p)
    \/ HwWriteOk(p)

TargetSpec == Init /\ [][TargetNext]_vars

\* ------------------------------------------------------------------------
\* Deliveries met by a table the import tool has written
\* ------------------------------------------------------------------------
\* main of the import tools stores every listed webhook under the placeholder
\* '<pending-secret>'; recreateWebhook does so for the new gid.
ImportedTables ==
  { <<Hdr, [id |-> "wh1", secret |-> Pending]>>,
    <<Hdr, [id |-> "wh1", secret |-> "s1"],
           [id |-> "wh2", secret |-> Pending]>> }

ImportInit ==
  /\ QueueIdle
  /\ secretSheet \in StoredTables \cup ImportedTables
  /\ sheetExists = (secretSheet # <<>>)
  /\ req = [p \in Procs |-> NoReq]
  /\ started = 0
  /\ failures = 0
  /\ TaskIdle
  /\ RcIdle
  /\ HelperIdle
  /\ DeliveryIdle
  /\ TargetIdle

\* A request whose X-Hook-Signature is the digest of its body under the text
\* of the placeholder.
BeginPlaceholderEvent ==
  \E handler \in WebHandlers, raw \in RawBodies, sheetId \in BOOLEAN :
    Begin(handler, "none", Pending, raw, sheetId, NoIds)

ImportNext ==
  \/ BeginPlaceholderEvent
  \/ VerifyNext

ImportSpec == ImportInit /\ [][ImportNext]_vars

\* ------------------------------------------------------------------------
\* A handshake that rotates a stored secret, then a delivery
\* ------------------------------------------------------------------------
\* The tables of StoredTables, and the one two handshakes for wh1 handled at
\* once leave behind: each found no row of wh1 and appended its own.
RotationTables ==
  StoredTables
    \cup { <<Hdr, [id |-> "wh1", secret |-> "s1"], [id |-> "wh1", secret |-> "s1"]>> }

RotateInit ==
  /\ QueueIdle
  /\ secretSheet \in RotationTables
  /\ sheetExists = (secretSheet # <<>>)
  /\ req = [p \in Procs |-> NoReq]
  /\ started = 0
  /\ failures = 0
  /\ TaskIdle
  /\ RcIdle
  /\ HelperIdle
  /\ DeliveryIdle
  /\ TargetIdle

\* A delivery that arrives when every earlier request has been answered and
\* its upsert has settled.
SeqBeginEvent == AllQuiet /\ BeginEvent

RotateNext ==
  \/ SeqBeginHandshake
  \/ SeqBeginEvent
  \/ \E p \in Procs : ClientReady(p)
  \/ \E p \in Procs : ClientFail(p)
  \/ \E p \in Procs : QueueStart(p)
  \/ \E p \in Procs : MetaOk(p)
  \/ \E p \in Procs : AddOk(p)
  \/ \E p \in Procs : HeaderOk(p)
  \/ \E p \in Procs : ReadOk(p)
  \/ \E p \in Procs : WriteOk(p)
  \/ \E p \in Procs, code \in Codes : CallFail(p, code)
  \/ \E p \in Procs : EventDone(p)
  \/ \E p \in Procs : EventRateLimited(p)

RotateSpec == RotateInit /\ [][RotateNext]_vars

\* ------------------------------------------------------------------------
\* Claims about the handshake and the secrets table
\* ------------------------------------------------------------------------
IsHandshake(r) == r.handler \in WebHandlers /\ r.hookSecret # "none" /\ r.sheetId

\* C1 - handshake echo: a handshake with a resolvable sheetId whose upsert was
\* attempted is answered 200 with X-Hook-Secret equal to the secret received,
\* when the upsert returned and when it threw.
HandshakeAlwaysEchoes ==
  \A p \in Procs :
    (IsHandshake(req[p]) /\ req[p].persist \in {"returned", "threw"})
      => (req[p].status = 200 /\ req[p].echo = req[p].hookSecret)

\* C2 - handshake ordering: no response has been sent while the upsert of that
\* request is still pending.
ResponseAfterPersist ==
  \A p \in Procs : req[p].status # 0 => req[p].persist # "pending"

\* A handshake answered after its upsert threw.
ResponseAfterPersistWitness ==
  \E p \in Procs :
    IsHandshake(req[p]) /\ req[p].status = 200 /\ req[p].persist = "threw"

\* The rows of the secrets sheet that carry the given webhook id.
RowsOf(id) == {i \in 1..Len(secretSheet) : secretSheet[i].id = id}

\* C3 - idempotent upsert, sequential: once upsert(id, A) and then
\* upsert(id, B) have returned, exactly one row carries id and its secret
\* is B (A = B included).
SequentialUpsertLeavesOneRow ==
  \A p \in Procs :
    (/\ p + 1 \in Procs
     /\ req[p].persist = "returned"
     /\ req[p + 1].persist = "returned"
     /\ req[p].wid = req[p + 1].wid)
      => /\ Cardinality(RowsOf(req[p].wid)) = 1
         /\ \A i \in RowsOf(req[p].wid) :
              secretSheet[i].secret = req[p + 1].hookSecret

\* C4 - uniqueness: in every reachable state the secrets sheet holds at most
\* one row per webhook id.
AtMostOneRowPerWebhookId ==
  \A id \in WebhookIds : Cardinality(RowsOf(id)) <= 1

\* ------------------------------------------------------------------------
\* Claims about the handshake request
\* ------------------------------------------------------------------------
\* The request of section 8: X-Hook-Secret s1, a sheetId, body {data:{id:"wh1"}}
\* and no id in header or query, answered, no later request begun.
IsEndToEndRequest(p) ==
  /\ p = started
  /\ req[p].handler \in WebHandlers /\ req[p].pc = "done"
  /\ req[p].hookSecret = "s1" /\ req[p].sheetId
  /\ req[p].ids = [hdr |-> "none", query |-> "none", body |-> "wh1"]

\* C14 - end-to-end handshake, stated for runs in which no call fails: after
\* that request the secrets sheet holds the record ("wh1", "s1") and the
\* response is 200 with X-Hook-Secret s1.
EndToEndHandshake ==
  \A p \in Procs :
    (failures = 0 /\ IsEndToEndRequest(p))
      => /\ req[p].status = 200 /\ req[p].echo = "s1"
         /\ \E i \in 1..Len(secretSheet) :
              secretSheet[i] = [id |-> "wh1", secret |-> "s1"]

\* The id the spec's resolution order yields.
SpecWebhookId(r) ==
  IF r.ids.hdr # "none" THEN r.ids.hdr
  ELSE IF r.ids.query # "none" THEN r.ids.query
  ELSE "generated-" \o ToString(r.now)

\* C15 - identifier resolution: a handshake whose upsert ran stores its secret
\* under the header id, else the query id, else "generated-" + timestamp, and
\* never under an undefined or empty id.
WebhookIdResolution ==
  \A p \in Procs :
    (req[p].handler \in WebHandlers /\ req[p].persist # "none")
      => /\ req[p].wid = SpecWebhookId(req[p])
         /\ req[p].wid \notin {"undefined", ""}
         /\ req[p].persist = "returned"
              => \A i \in 1..Len(secretSheet) :
                   secretSheet[i].secret # "" => secretSheet[i].id # ""

\* The body of the normal handshake answer of each handler.
NormalHandshakeBody(h) ==
  CASE h = "express" -> "OK"
    [] h = "vercel" -> "Webhook handshake completed"
    [] OTHER -> "Handshake OK (persist attempt completed)"

\* C16 - degraded handshake: a request with X-Hook-Secret and no resolvable
\* spreadsheet id makes no secret-store call and is answered 200 with the
\* secret echoed and a body other than that of the normal path.
DegradedHandshake ==
  \A p \in Procs :
    LET r == req[p]
    IN (r.handler \in WebHandlers /\ r.hookSecret # "none" /\ ~r.sheetId
          /\ r.pc = "done")
         => /\ r.persist = "none"
            /\ r.status = 200 /\ r.echo = r.hookSecret
            /\ r.body # NormalHandshakeBody(r.handler)

\* C17 - upsert failure handling: an upsert that threw a rate-limit error had
\* retried the failing call once before; and an upsert that returned normally
\* has written its secret.
UpsertRetriesRateLimitOnce ==
  \A p \in Procs :
    LET r == req[p]
    IN (r.handler \in WebHandlers /\ r.hookSecret # "none")
         => /\ r.thrown.code = "429" => r.thrown.retried
            /\ (p = started /\ r.persist = "returned")
                 => \E i \in 1..Len(secretSheet) :
                      secretSheet[i].secret = r.hookSecret

\* C19 - ensureSchema idempotence: the add-sheet mutation is issued only while
\* the sheet webhook_secrets is absent, so that at most one is ever applied
\* and no call of ensureWebhookSecretsSheet fails on a sheet that exists.
EnsureAddsSheetOnlyWhenAbsent ==
  \A p \in Procs : req[p].pc = "add" => ~sheetExists

\* ------------------------------------------------------------------------
\* Claims about event deliveries
\* ------------------------------------------------------------------------
StoredSecrets == SecretsOf(DataRows(secretSheet))

\* The signature header is the digest of the raw body under a stored secret.
SignatureMatches(r) ==
  r.sig # "none" /\ VerifySignature(StoredSecrets, r.raw, Hmac(r.sig, r.raw))

IsVerifiedDelivery(r) ==
  /\ r.handler \in {"express", "vercel"}
  /\ r.hookSecret = "none" /\ r.sig # "none" /\ r.sheetId
  /\ r.status # 0

\* C5 - multi-secret verification, stated for runs in which no call fails: a
\* delivery signed over its body with a stored secret is answered 200, one
\* signed with a secret that is not stored (or met by an empty store) 401.
MultiSecretVerification ==
  \A p \in Procs :
    (failures = 0 /\ IsVerifiedDelivery(req[p]))
      => req[p].status = (IF SignatureMatches(req[p]) THEN 200 ELSE 401)

\* C27 - signature over the raw bytes: a delivery whose signature is the HMAC
\* of its raw body under one of the secrets getWebhookSecrets returned is
\* accepted with 200, whatever the spelling of the body.
SignatureOverRawBytes ==
  \A p \in Procs :
    LET r == req[p]
    IN (r.hookSecret = "none" /\ r.sig \in r.secrets
          /\ VerifySignature(r.secrets, r.raw, Hmac(r.sig, r.raw)))
         => r.status = 200

\* C6 - response codes of a request without X-Hook-Secret, stated for runs in
\* which no call fails: 200 only with a signature matching a stored secret,
\* 401 for a signature matching none, 400 without signature or sheetId; and
\* events are handed to handleWebhookEvent only after a verified 200.
EventResponseCodes ==
  \A p \in Procs :
    LET r == req[p]
    IN (failures = 0 /\ r.handler \in WebHandlers /\ r.hookSecret = "none"
          /\ r.status # 0)
         => /\ r.status = 200 => SignatureMatches(r)
            /\ (r.sig = "none" \/ ~r.sheetId) => r.status = 400
            /\ (r.sig # "none" /\ r.sheetId /\ ~SignatureMatches(r))
                 => r.status = 401
            /\ r.evStarted > 0 => (r.status = 200 /\ r.verified)

\* The non-empty cells of the secret column from row 2 on.
SecretCells ==
  {secretSheet[i].secret : i \in 2..Len(secretSheet)} \ {""}

OnlyHandshakeSecretsVerify ==
  \A p \in Procs :
    LET r == req[p]
    IN (r.handler \in {"express", "vercel"} /\ r.hookSecret = "none"
          /\ r.status = 200)
         => \E s \in Secrets : Hmac(r.sig, r.raw) = Hmac(s, r.raw)

\* C35 - verification fails closed: a delivery whose getWebhookSecrets caught
\* an error got the empty set, is answered 401 and has none of its events
\* handled; no delivery is answered 'Failed to verify webhook signature'; and
\* a delivery is answered 200, and its events handled, only when its
\* signature is the digest of the body it was checked against under a stored
\* secret.
VerificationFailsClosed ==
  \A p \in Procs :
    LET r == req[p]
    IN (r.handler \in {"express", "vercel"} /\ r.hookSecret = "none")
         => /\ r.body # "Failed to verify webhook signature"
            /\ r.thrown # NoThrow
                 => (r.secrets = {} /\ r.status = 401 /\ r.evStarted = 0)
            /\ r.status = 200
                 => VerifySignature(StoredSecrets, Stringify(Parse(r.raw)),
                                    Hmac(r.sig, r.raw))
            /\ r.evStarted > 0 => r.status = 200

\* A delivery signed with a stored secret whose read of the table failed.
FailsClosedWitness ==
  \E p \in Procs :
    /\ req[p].handler \in {"express", "vercel"} /\ req[p].hookSecret = "none"
    /\ req[p].sig \in StoredSecrets /\ req[p].raw = Compact
    /\ req[p].thrown.at = "read" /\ req[p].status = 401

\* The secret is held by a row of another webhook id.
StoredUnderOtherId(secret, id) ==
  \E i \in 2..Len(secretSheet) :
    secretSheet[i].secret = secret /\ secretSheet[i].id \notin {id, ""}

\* C36 - rotation revokes the old secret: once the upsert of a handshake for
\* a webhook id has returned, a later delivery signed with another secret is
\* not answered 200 unless that secret is stored under another webhook id.
RotationRevokesOldSecret ==
  \A p, q \in Procs :
    (/\ p < q
     /\ req[p].handler \in WebHandlers /\ req[p].hookSecret # "none"
     /\ req[p].persist = "returned"
     /\ req[q].handler \in {"express", "vercel"} /\ req[q].hookSecret = "none"
     /\ req[q].sig # req[p].hookSecret
     /\ ~StoredUnderOtherId(req[q].sig, req[p].wid))
      => req[q].status # 200

\* ------------------------------------------------------------------------
\* Claims about the event reconciliation
\* ------------------------------------------------------------------------
EvWrites(e) == e.nUpdate + e.nAppend + e.nDelete

\* The event has passed findTaskRow in its current run.
PastFind(e) == e.pc \in {"update", "append", "verifyRow", "delete", "done"} /\ ~e.threw

\* C11 - skip rule: a changed/added event whose task is not completed, whose
\* assignee is none of Manager / Withdrawals / Withdraws and which has no row
\* issues no write call and changes nothing on the sheet.
SkipRuleWritesNothing ==
  \A p \in Procs :
    LET e == ev[p]
    IN (/\ IsUpsertAction(e.action) /\ PastFind(e)
        /\ ~e.completed
        /\ e.assignee \notin {"Manager", "Withdrawals", "Withdraws"}
        /\ ~e.hadRow)
         => (e.pc = "done" /\ e.issued = 0 /\ EvWrites(e) = 0)

\* An event of an unfinished task of an ordinary worker, without a row, done.
SkipRuleWitness ==
  \E p \in Procs :
    /\ ev[p].action = "changed" /\ ev[p].pc = "done" /\ ~ev[p].threw
    /\ ~ev[p].completed /\ ev[p].assignee = "Worker1" /\ ~ev[p].hadRow
    /\ ev[p].rowIndex = 0

\* C12 - delete rule: a removed/deleted event that returned has, when its task
\* had a row, removed exactly one row and that row held its task; when its
\* task had no row it issued no write call.
DeleteRemovesOnlyItsRow ==
  \A p \in Procs :
    LET e == ev[p]
    IN (IsDeleteAction(e.action) /\ e.pc = "done" /\ ~e.threw)
         => /\ e.hadRow => (e.nDelete = 1 /\ e.touched = e.task)
            /\ ~e.hadRow => (e.issued = 0 /\ EvWrites(e) = 0)

\* C21 - logical delete: a removed/deleted event that issued its delete left
\* every other task's row at the row index it had before the delete.
LogicalDeleteKeepsRowIndexes ==
  \A p \in Procs :
    (IsDeleteAction(ev[p].action) /\ ev[p].nDelete > 0) => ev[p].moved = {}

\* C25 - the header row is never addressed: the row a secret upsert is about
\* to update and the row the reconciler is about to update or delete is never
\* row 1; it is the first row after row 1 that holds the webhook_id or the
\* task_id, also when that id is the header text.
HeaderRowNeverAddressed ==
  /\ \A p \in Procs :
       (req[p].call = "store" /\ req[p].pc = "write" /\ req[p].target # 0)
         => LET t == req[p].target
            IN /\ t >= 2
               /\ t \in DOMAIN secretSheet
               /\ secretSheet[t].id = req[p].wid
               /\ \A j \in 2..(t - 1) : secretSheet[j].id # req[p].wid
  /\ \A p \in Procs :
       ev[p].pc \in {"update", "verifyRow", "delete"}
         => LET t == ev[p].rowIndex
            IN /\ t >= 2
               /\ t \in DOMAIN taskSheet
               /\ taskSheet[t].task = ev[p].task
               /\ \A j \in 2..(t - 1) : taskSheet[j].task # ev[p].task

\* A handshake for the webhook id "webhook_id" is about to update row 3, after
\* an event for the task id "Task ID" has deleted row 3 of Sheet1.
HeaderRowWitness ==
  \E p, q \in Procs :
    /\ req[p].call = "store" /\ req[p].pc = "write"
    /\ req[p].wid = Hdr.id /\ req[p].target = 3
    /\ ev[q].pc = "done" /\ ev[q].task = TaskHdr.task
    /\ ev[q].nDelete = 1 /\ ev[q].rowIndex = 3 /\ ev[q].touched = TaskHdr.task

\* C13 - upsert policy: a changed/added event that returned has, when its task
\* had a row, overwritten that row (one update, no append); when it had none
\* and the task is completed or specially assigned, appended one row; and in
\* no case appended more than one.
UpsertPolicy ==
  \A p \in Procs :
    LET e == ev[p]
    IN (IsUpsertAction(e.action) /\ e.pc = "done" /\ ~e.threw)
         => /\ e.hadRow => (e.nUpdate = 1 /\ e.nAppend = 0 /\ e.touched = e.task)
            /\ (~e.hadRow /\ ShouldAddRow(e.completed, e.assignee))
                 => (e.nAppend = 1 /\ e.nUpdate = 0)
            /\ e.nAppend <= 1

\* C32 - no stale row address: every in-place update and every row delete
\* applied for a task hits a row whose Task ID cell holds that task at the
\* moment the write is applied.
NoStaleRowAddress ==
  \A p \in Procs :
    (ev[p].nUpdate > 0 \/ ev[p].nDelete > 0) => ev[p].touched = ev[p].task

\* The rows after the header that hold the task.
TaskRows(sheet, task) == {i \in 2..Len(sheet) : sheet[i].task = task}

\* C33 - one row per task: from a sheet with at most one row per task, every
\* sequence of changed/added/removed/deleted events leaves at most one row
\* per task, also when the row scan of findTaskRow fails.
OneRowPerTask ==
  \A t \in Tasks : Cardinality(TaskRows(taskSheet, t)) <= 1

\* ------------------------------------------------------------------------
\* Claims about the import tool
\* ------------------------------------------------------------------------
\* The secrets listSecrets returns from the given sheet.
Listed(sheet) == {sheet[i].secret : i \in 2..Len(sheet)} \ {""}

\* Blanking kept the number of rows and every other row, and emptied both
\* cells of the row of the client id.
BlankedInPlace ==
  /\ Len(rc.after) = Len(rc.before)
  /\ rc.before[rc.blanked].id = ClientId
  /\ rc.after[rc.blanked] = BlankRow
  /\ \A i \in 1..Len(rc.before) : i # rc.blanked => rc.after[i] = rc.before[i]

\* C20 as stated - logical delete: the row is blanked in place, the other rows
\* keep index and contents, no row disappears, and the secret of the blanked
\* row is no longer among the secrets listSecrets returns.
LogicalDeleteDropsSecret ==
  rc.blanked # 0
    => /\ BlankedInPlace
       /\ rc.before[rc.blanked].secret \notin Listed(rc.after)

\* C20 as amended - the same frame; the blanked row contributes nothing to
\* listSecrets, which returns what the other rows hold.
LogicalDeleteKeepsOtherRows ==
  rc.blanked # 0
    => /\ BlankedInPlace
       /\ Listed(rc.after) =
            {rc.before[i].secret : i \in (2..Len(rc.before)) \ {rc.blanked}} \ {""}

\* The client row was blanked with a row below it.
LogicalDeleteWitness ==
  rc.pc = "done" /\ rc.blanked # 0 /\ rc.blanked < Len(rc.after)

\* ------------------------------------------------------------------------
\* Claims about the event loop of a delivery
\* ------------------------------------------------------------------------
\* The operations of the delivery that have been started or settled.
DeliveryOpsTouched ==
  {i \in 1..Len(dl.ops) : exec[dl.ops[i]] # "none" \/ promise[dl.ops[i]] # "pending"
                            \/ fails429[dl.ops[i]] > 0}

\* The 200 was sent before any event was handed over, and an event is handed
\* over only when all events before it have settled.
RespondThenProcessInOrder ==
  /\ (dl.ops # <<>> \/ dl.pc = "running") => dl.status = 200
  /\ \A i \in 1..Len(dl.ops) :
       i < Len(dl.ops) => promise[dl.ops[i]] \in {"resolved", "rejected"}
  /\ \A i, j \in 1..Len(dl.ops) : i < j => dl.ops[i] < dl.ops[j]
  /\ Len(dl.ops) \in {dl.next, dl.next - 1, 0}

\* C28 - respond-then-process ordering: once the 200 of a verified delivery is
\* sent its events are processed one after the other, and the loop reaches
\* the last event of the delivery, also after an event before it has failed.
LaterEventsProcessed ==
  (dl.status = 200) ~> (dl.next >= Len(DeliveryEvents))

\* ------------------------------------------------------------------------
\* Claims about the write queue
\* ------------------------------------------------------------------------
\* C7 - write serialization: at every moment at most one operation passed to
\* sheetsRateLimiter.enqueue is executing, also after a 429 re-queue.
QueueNoOverlap == Cardinality(Running) <= 1

\* A re-queued operation runs again while a later one waits in the queue.
QueueNoOverlapWitness ==
  \E op \in Ops : exec[op] # "none" /\ fails429[op] > 0 /\ Len(queue) > 0

\* C8 - queue completion order: if A was enqueued before B then B's promise is
\* never settled while A's is still pending.
QueueSettlesInEnqueueOrder ==
  \A a, b \in Ops : (a < b /\ Settled(b)) => Settled(a)

\* C9 - queue liveness: every operation passed to enqueue eventually has its
\* promise settled, a 429 being retried rather than delivered.
QueueEveryPromiseSettles ==
  \A op \in Ops : (promise[op] = "pending") ~> Settled(op)

\* C10 - single writer: at most one spreadsheet write call is in flight in the
\* process, counting queued operations and export requests.
WritesInFlight ==
  Cardinality({op \in Ops : exec[op] = "write"})
    + Cardinality({e \in Exports : exportPc[e] \in {"clear", "update", "resize"}})

SingleWriterInProcess == WritesInFlight <= 1

\* C29 - minimum spacing: from the completion of an operation (resolved,
\* rejected or re-queued after a 429) until the minimum-delay timer started
\* at that completion has fired, the flag stays set and no operation
\* executes; at most one such timer is pending.
MinimumSpacing ==
  minDelayTimers > 0
    => /\ minDelayTimers = 1
       /\ processing
       /\ \A op \in Ops : exec[op] = "none"

\* An operation waits in the queue while the timer started at a completion is
\* pending, after one operation has settled and one has met a 429.
MinimumSpacingWitness ==
  /\ minDelayTimers = 1
  /\ Len(queue) > 0
  /\ \E op \in Ops : promise[op] \in {"resolved", "rejected"}
  /\ \E op \in Ops : fails429[op] > 0

\* ------------------------------------------------------------------------
\* Claims about the retry helpers, the pagination and the field extraction
\* ------------------------------------------------------------------------
IsTransient(status) == status = 429 \/ IsServerError(status) \/ status = NoStatus

IsPersistent(status) == status >= 400 /\ status < 500 /\ status # 429

\* C22 - transient errors are retried with a cap: a retry helper makes at most
\* maxRetries calls; a call that succeeds is returned; a run that threw has
\* thrown the error of its last call, and when that error was a 429, a 5xx or
\* a network timeout it had made all of its maxRetries calls.
TransientErrorsRetriedWithCap ==
  /\ rt.calls <= rt.maxRetries
  /\ (rt.outcomes # <<>> /\ rt.outcomes[Len(rt.outcomes)] = 200)
       => (rt.pc = "done" /\ rt.result = "returned")
  /\ (rt.pc = "done" /\ rt.result = "threw")
       => /\ rt.thrown = rt.outcomes[Len(rt.outcomes)]
          /\ \A i \in 1..Len(rt.outcomes) : rt.outcomes[i] # 200
          /\ IsTransient(rt.thrown) => rt.calls = rt.maxRetries

\* C23 - persistent errors are not retried: a call that failed with a 4xx
\* status other than 429 is the last call of its run, and the run has thrown
\* that error.
PersistentErrorsNotRetried ==
  \A i \in 1..Len(rt.outcomes) :
    IsPersistent(rt.outcomes[i])
      => /\ i = Len(rt.outcomes)
         /\ rt.pc = "done"
         /\ rt.result = "threw"
         /\ rt.thrown = rt.outcomes[i]

\* The number of failed page fetches at the end of the history.
RECURSIVE TrailingFailures(_)
TrailingFailures(h) ==
  IF h = <<>> \/ h[Len(h)].ok THEN 0
  ELSE 1 + TrailingFailures(SubSeq(h, 1, Len(h) - 1))

\* The items of the pages fetched successfully, in order.
RECURSIVE ItemsFetched(_)
ItemsFetched(h) ==
  IF h = <<>> THEN <<>>
  ELSE ItemsFetched(SubSeq(h, 1, Len(h) - 1)) \o h[Len(h)].data

\* C24 - pagination failure: getAllPages holds the items of all pages fetched
\* successfully so far; it goes on while fewer than three page fetches in a
\* row have failed, and it has returned (it has no throwing exit) exactly
\* when three in a row have failed or a page came without a next offset.
PaginationStopsAfterThreeFailures ==
  LET h == pg.history
  IN /\ pg.results = ItemsFetched(h)
     /\ TrailingFailures(h) >= 3 => pg.pc = "returned"
     /\ pg.pc = "returned"
          => \/ TrailingFailures(h) = 3
             \/ (h # <<>> /\ h[Len(h)].ok /\ h[Len(h)].next = 0)
     /\ (h # <<>> /\ h[Len(h)].ok /\ h[Len(h)].next # 0) => pg.pc = "loop"
     /\ (h # <<>> /\ TrailingFailures(h) \in 1..2) => pg.pc = "loop"

\* getAllPages returned after three failed fetches that followed a failure, a
\* success and items fetched.
PaginationWitness ==
  /\ pg.pc = "returned"
  /\ TrailingFailures(pg.history) = 3
  /\ pg.results # <<>>
  /\ \E i, j \in 1..Len(pg.history) :
       i < j /\ ~pg.history[i].ok /\ pg.history[j].ok

\* The custom field keys of the object processTaskData returned.
CustomKeys == DOMAIN cf.result \ FixedKeys(cf.module)

\* The allow-list as the claim gives it.
AllowList ==
  {"Worker", "Status", "Paid with...", "Deposit", "Bonus", "Max bet", "WG",
   "Max win", "Balance", "Groups", "Received", "RM/BM"}
    \cup (IF cf.workspaceId = Str("1205846480740952") THEN {"balance"} ELSE {})

\* C26 - custom field extraction: the result holds a custom field key only for
\* an allow-listed field of the task, and its value is, for the last field of
\* that name, enum_value.name if enum_value is present, else number_value if
\* it is neither null nor undefined, else text_value if present, else
\* display_value.
CustomFieldExtraction ==
  cf.pc = "done" =>
    /\ \A k \in CustomKeys :
         k \in AllowList /\ \E i \in 1..Len(cf.fields) : cf.fields[i].name = k
    /\ \A i \in 1..Len(cf.fields) :
         LET f == cf.fields[i]
         IN (f.name \in AllowList
               /\ \A j \in (i + 1)..Len(cf.fields) : cf.fields[j].name # f.name)
              => /\ f.name \in CustomKeys
                 /\ cf.result[f.name] =
                      IF f.enum_value.t = "object" THEN Str(f.enum_value.v)
                      ELSE IF f.number_value # Null /\ f.number_value # Undefined
                        THEN f.number_value
                      ELSE IF f.text_value.t = "string" /\ f.text_value.v # ""
                        THEN f.text_value
                      ELSE f.display_value

\* processTaskData was given, for the special workspace, a "balance" field
\* with number_value 0 and a text_value, next to a field outside the list.
CustomFieldWitness ==
  /\ cf.pc = "done"
  /\ cf.workspaceId = Str("1205846480740952")
  /\ Len(cf.fields) = 2
  /\ cf.fields[1].name = "balance"
  /\ cf.fields[1].enum_value = Null
  /\ cf.fields[1].number_value = Num("0")
  /\ cf.fields[1].text_value = Str("abc")
  /\ cf.fields[2].name = "Notes"
  /\ cf.result["balance"] = Num("0")

\* The value of the lowercase balance field of the task, "" without one.
BalanceOf(fields) ==
  IF \E i \in 1..Len(fields) : fields[i].name = "balance"
    THEN (CHOOSE f \in {fields[i] : i \in 1..Len(fields)} : f.name = "balance").number_value
    ELSE Str("")

\* C30 - workspace-specific extra column: a changed/added event that takes
\* the update or the append path writes, for a task of workspace
\* 1205846480740952, a row of 20 columns whose last one holds the value of the
\* lowercase balance field, and for any other workspace a row of 19 columns.
ExtraColumnForBalanceWorkspace ==
  (wr.pc = "done" /\ wr.path \in {"update", "append"})
    => IF wr.workspace = Str("1205846480740952")
         THEN /\ Len(wr.written) = 20
              /\ wr.written[20] = BalanceOf(wr.fields)
         ELSE Len(wr.written) = 19

\* C37 - numeric values survive into the row: for every allow-listed custom
\* field without enum_value whose number_value is not null, the value 0
\* included, the cell written for that field is the number_value that
\* processTaskData extracted.
NumericValuesSurvive ==
  (wr.pc = "done" /\ wr.written # <<>>)
    => LET processed == ProcessTaskData("asana", wr.fields, wr.workspaceId)
       IN \A i \in 1..Len(FieldColumns), j \in 1..Len(wr.fields) :
            (/\ wr.fields[j].name = FieldColumns[i]
             /\ j = LastNamed(wr.fields, FieldColumns[i])
             /\ ~Truthy(wr.fields[j].enum_value)
             /\ wr.fields[j].number_value.t \notin {"null", "undefined"})
              => /\ processed[FieldColumns[i]] = wr.fields[j].number_value
                 /\ wr.written[4 + i] = processed[FieldColumns[i]]

\* The offset getAllPages passes to the i-th fetch of its history: none (0)
\* at first, then the next offset of a page fetched, the same offset again
\* after a failed fetch.
OffsetOfFetch(h, i) ==
  IF i = 1 THEN 0
  ELSE IF h[i - 1].ok THEN h[i - 1].next ELSE h[i - 1].offset

\* C38 - pagination result is exact: the list getAllPages holds is the
\* concatenation, in fetch order, of the data of the pages fetched
\* successfully, each page once; a failed fetch adds nothing and the fetch
\* after it uses the same offset; the offset advances only with a page
\* fetched.
PaginationResultExact ==
  LET h == pg.history
  IN /\ pg.results = ItemsFetched(h)
     /\ \A i \in 1..Len(h) :
          /\ h[i].offset = OffsetOfFetch(h, i)
          /\ ~h[i].ok => ItemsFetched(SubSeq(h, 1, i)) = ItemsFetched(SubSeq(h, 1, i - 1))
     /\ \A i, j \in 1..Len(h) :
          (i < j /\ h[i].ok /\ h[j].ok) => h[i].offset # h[j].offset
     /\ \A i, j \in 1..Len(pg.results) :
          i # j => pg.results[i] # pg.results[j]
     /\ pg.pc = "loop" => pg.offset = OffsetOfFetch(h, Len(h) + 1)

\* getAllPages returned the items of both pages, in order, after a failed
\* fetch of the second page.
PaginationExactWitness ==
  /\ pg.pc = "returned"
  /\ pg.results = <<1, 2>>
  /\ \E i \in 1..Len(pg.history) :
       ~pg.history[i].ok /\ pg.history[i].offset = 1

\* C39 - pagination terminates: with a finite chain of next offsets
\* getAllPages always returns, after a page without next offset or after
\* three failed fetches in a row; and the upstream calls made for one offset
\* are at most 3 times maxRetries.
PaginationTerminates ==
  /\ [](\A m \in RetryLimits("fetchWithRetry") :
          pg.pc # "idle" => pg.calls + rt.calls <= MAX_CONSECUTIVE_ERRORS * m)
  /\ [](pg.pc = "returned"
          => \/ TrailingFailures(pg.history) = MAX_CONSECUTIVE_ERRORS
             \/ (pg.history # <<>> /\ pg.history[Len(pg.history)].ok
                   /\ pg.history[Len(pg.history)].next = 0))
  /\ (pg.pc = "loop") ~> (pg.pc = "returned")

\* getAllPages returned after three failed fetches of one offset, each of
\* them having made all five calls of fetchWithRetry.
PaginationTerminatesWitness ==
  /\ pg.pc = "returned"
  /\ pg.calls = 15
  /\ TrailingFailures(pg.history) = 3

\* ------------------------------------------------------------------------
\* Claims about the spreadsheet a call addresses
\* ------------------------------------------------------------------------
\* C31: every read or write sent while handling an event for sheetId S
\* addresses spreadsheet S, whatever is handled for another sheetId between
\* two awaits of that work.
SpreadsheetTargeting ==
  \A p \in Procs : hw[p].addressed \subseteq {hw[p].sheetId}

====
